---- MODULE Spec2Model ----
(***************************************************************************)
(* Voyage execution engine of the AD&D voyage simulator                    *)
(* (scripts/voyage/simulation.js and the rule subsystems it calls).        *)
(*                                                                         *)
(* One voyage is modelled.  `state` is the voyageState object, `pc` is the *)
(* position of runSimulation (or of the manual-mode caller), `i`,          *)
(* `remainingDistance` and `sailingDays` are the loop variables of         *)
(* runSimulation / sailLeg, `activeVoyages` is the key set of the          *)
(* simulator's activeVoyages map and `store` the "voyages" world setting.  *)
(* `ships` is the content of ShipRegistry.ships; an object that can be     *)
(* reached through two references carries its identity in the field oid.   *)
(* `saving` holds the calls of saveState that are under way, each with the *)
(* store object it has read (the specification SaveSpec runs two callers   *)
(* that save the states of two voyages concurrently).  `sale` holds the    *)
(* inputs and the result of one perishability check at a sale (the         *)
(* specification PerishSpec applies the check to a range of inputs).       *)
(* `calendarDay` is the number of days the world's calendar tracker has    *)
(* been advanced by advanceDay.                                            *)
(* Dice, weather and the random table picks are                            *)
(* inputs of the actions, drawn from small sets of representative rolls.   *)
(*                                                                         *)
(* JavaScript values without a TLA+ counterpart:                           *)
(*   null / absent ledger amount      <<>>   (a present amount v is <<v>>) *)
(*   undefined number (missedBy)      <<>>                                 *)
(*   null cargo type                  "null"                               *)
(*   undefined purchaseLegIndex       Undefined (-1; real indexes are >=0) *)
(*   null distance                    NoDistance (0; real distances are >0)*)
(*   a counter that may be undefined, NaN or null                          *)
(*                                    [kind, n] (Num, UndefinedNum, NaN,   *)
(*                                    NullNum)                             *)
(***************************************************************************)
EXTENDS Integers, Sequences, FiniteSets, TLC

VARIABLES state, pc, cfg, i, remainingDistance, sailingDays, activeVoyages, store, ships,
          saving, sale, calendarDay

vars ==
    <<state, pc, cfg, i, remainingDistance, sailingDays, activeVoyages, store, ships, saving, sale, calendarDay>>

\* ------------------------------------------------------------------ bounds
\* Cap on the number of days stepped by simulateDay calls that arrive after
\* the automatic run of the voyage has ended (LateSpec)
MaxLateDays == 1

\* Cap on the number of saveState calls of one caller in SaveSpec
MaxSaves == 2

\* Cap on the number of simulated days of one voyage (sea days, days in
\* port and manual steps); the loops of the program are unbounded.
MaxDays == 6

\* ------------------------------------------------------------- arithmetic
Undefined == -1

NoDistance == 0

Min(a, b) == IF a <= b THEN a ELSE b

Max(a, b) == IF a >= b THEN a ELSE b

\* Math.floor(a / b) for b > 0 (\div rounds towards minus infinity)
Floor(a, b) == a \div b

\* Math.ceil(a / b) for b > 0
Ceil(a, b) == -((-a) \div b)

\* Math.clamp(x, lo, hi)
Clamp(x, lo, hi) == Max(lo, Min(x, hi))

\* a recorded amount: `x > 0 ? x : null`
Amount(x) == IF x > 0 THEN <<x>> ELSE <<>>

\* the numeric value of a recorded amount, null counting as 0
Val(a) == IF a = <<>> THEN 0 ELSE a[1]

RECURSIVE SumSeq(_)
SumSeq(s) == IF s = <<>> THEN 0 ELSE Head(s) + SumSeq(Tail(s))

\* a counter holding the number n
Num(n) == [kind |-> "number", n |-> n]

\* a counter that was never assigned (the property is absent)
UndefinedNum == [kind |-> "undefined", n |-> 0]

NaN == [kind |-> "NaN", n |-> 0]

NullNum == [kind |-> "null", n |-> 0]

\* x + 1 and x++ : undefined and NaN give NaN, null counts as 0
PlusOne(x) ==
    CASE x.kind = "number" -> Num(x.n + 1)
      [] x.kind = "null" -> Num(1)
      [] OTHER -> NaN

\* statement sequencing: the value x of one statement is computed once and
\* handed to the rest of the handler, F
Then(x, F(_)) == CHOOSE r \in {F(v) : v \in {x}} : TRUE

\* ------------------------------------------------------------- registries
\* ShipRegistry.initialize: the two ship templates; crew maps each role
\* name of the template to its count
ShipTemplate(id) ==
    CASE id = "small_merchant_1" ->
           [hullPoints |-> [value |-> 36, max |-> 36], cargoCapacity |-> 30,
            movement |-> 15,
            crew |-> [lieutenant |-> 1, mate |-> 1, sailor |-> 8, oarsman |-> 2,
                      marine |-> 0]]
      [] id = "medium_cog_1" ->
           [hullPoints |-> [value |-> 40, max |-> 40], cargoCapacity |-> 50,
            movement |-> 12,
            crew |-> [lieutenant |-> 2, mate |-> 4, sailor |-> 30, oarsman |-> 5,
                      marine |-> 5]]

\* `crew.find(c => c.role === role)?.count || 0`
CrewCount(crew, role) == IF role \in DOMAIN crew THEN crew[role] ELSE 0

KnownShips == {"small_merchant_1", "medium_cog_1"}

\* PortRegistry.initialize: size of every port
PortSize(p) ==
    CASE p \in {"greyhawk_city", "hardby", "port_elredd"} -> "Major Port"
      [] p \in {"dyvers", "verbobonc", "safeton", "rel_mord", "gradsul"} -> "Port"
      [] p \in {"leukish", "fax", "nessermouth"} -> "Minor Port"

\* PortRegistry.initialize: connections of every port
Connections(p) ==
    CASE p = "greyhawk_city" ->
           [dyvers |-> 390, verbobonc |-> 600, leukish |-> 420, hardby |-> 180,
            safeton |-> 240, fax |-> 480, port_elredd |-> 480, nessermouth |-> 870]
      [] p = "dyvers" ->
           [greyhawk_city |-> 390, verbobonc |-> 210, leukish |-> 570, hardby |-> 570,
            safeton |-> 630, fax |-> 870, port_elredd |-> 990]
      [] p = "verbobonc" -> [greyhawk_city |-> 600, dyvers |-> 210, leukish |-> 780]
      [] p = "leukish" ->
           [greyhawk_city |-> 420, dyvers |-> 570, verbobonc |-> 780, port_elredd |-> 350]
      [] p = "hardby" ->
           [rel_mord |-> 150, gradsul |-> 200, greyhawk_city |-> 650, fax |-> 300,
            port_elredd |-> 600]
      [] p = "safeton" -> [greyhawk_city |-> 250, dyvers |-> 200, nessermouth |-> 100]
      [] p = "fax" -> [greyhawk_city |-> 180, hardby |-> 300, rel_mord |-> 400]
      [] p = "port_elredd" ->
           [greyhawk_city |-> 500, leukish |-> 350, hardby |-> 600, rel_mord |-> 700]
      [] p = "nessermouth" -> [safeton |-> 100, greyhawk_city |-> 200]
      [] p = "rel_mord" -> [hardby |-> 150, gradsul |-> 100, fax |-> 400, port_elredd |-> 700]
      [] p = "gradsul" -> [hardby |-> 200, rel_mord |-> 100]

\* PortRegistry.getSizeModifier
getSizeModifier(portSize) ==
    CASE portSize = "Major Port" -> 2
      [] portSize = "Port" -> 1
      [] portSize = "Minor Port" -> 0
      [] OTHER -> -2

\* PortRegistry.getDistance: `fromPort.connections[toId] || null`
getDistance(fromId, toId) ==
    IF toId \in DOMAIN Connections(fromId) THEN Connections(fromId)[toId] ELSE NoDistance

\* RouteRegistry.initialize: the routes; `circuit` is what
\* route.name.toLowerCase().includes("circuit") evaluates to for the name
Route(id) ==
    CASE id = "nyr_dyv_circuit" ->
           [ports |-> <<"verbobonc", "dyvers", "greyhawk_city", "leukish">>, circuit |-> TRUE]
      [] id = "greyhawk_dyvers" ->
           [ports |-> <<"greyhawk_city", "dyvers">>, circuit |-> FALSE]
      [] id = "southern_route" ->
           [ports |-> <<"leukish", "greyhawk_city", "dyvers", "verbobonc">>, circuit |-> FALSE]
      [] id = "relmor_bay_circuit" ->
           [ports |-> <<"hardby", "rel_mord", "gradsul">>, circuit |-> TRUE]
      [] id = "gearnat_relmor_trade" ->
           [ports |-> <<"greyhawk_city", "hardby", "rel_mord", "gradsul", "greyhawk_city">>,
            circuit |-> FALSE]
      [] id = "hardby_to_gradsul" ->
           [ports |-> <<"hardby", "gradsul">>, circuit |-> FALSE]
      [] id = "nyr_dyv_eastern_loop" ->
           [ports |-> <<"greyhawk_city", "hardby", "safeton", "fax", "greyhawk_city">>,
            circuit |-> FALSE]
      [] id = "nyr_dyv_western_loop" ->
           [ports |-> <<"greyhawk_city", "safeton", "nessermouth", "greyhawk_city">>,
            circuit |-> FALSE]
      [] id = "southern_coastal_route" ->
           [ports |-> <<"port_elredd", "leukish", "greyhawk_city", "port_elredd">>,
            circuit |-> FALSE]
      [] id = "heart_of_nyr_dyv" ->
           [ports |-> <<"greyhawk_city", "safeton", "dyvers", "greyhawk_city">>,
            circuit |-> FALSE]
      [] id = "relmor_bay_western_trade" ->
           [ports |-> <<"hardby", "rel_mord", "fax", "hardby">>, circuit |-> FALSE]

KnownRoutes ==
    {"nyr_dyv_circuit", "greyhawk_dyvers", "southern_route", "relmor_bay_circuit",
     "gearnat_relmor_trade", "hardby_to_gradsul", "nyr_dyv_eastern_loop",
     "nyr_dyv_western_loop", "southern_coastal_route", "heart_of_nyr_dyv",
     "relmor_bay_western_trade"}

\* CargoRegistry.initialize: base value per load
BaseValue(cargoType) ==
    CASE cargoType = "primitive" -> 50
      [] cargoType = "consumer" -> 150
      [] cargoType = "comfort" -> 250
      [] cargoType = "fine" -> 400
      [] cargoType = "precious" -> 2000

\* CargoRegistry.determineTypeFromRoll
determineTypeFromRoll(rollTotal) ==
    IF rollTotal <= 5 THEN "primitive"
    ELSE IF rollTotal <= 8 THEN "consumer"
    ELSE IF rollTotal <= 12 THEN "comfort"
    ELSE IF rollTotal <= 16 THEN "fine"
    ELSE "precious"

\* CargoRegistry.getSaleAdjustment
getSaleAdjustment(saRoll) ==
    LET r == Clamp(saRoll, 3, 20)
    IN  CASE r <= 16 -> 10 * r
          [] r = 17 -> 180
          [] r = 18 -> 200
          [] r = 19 -> 300
          [] r = 20 -> 400

\* ------------------------------------------------------------ proficiency
\* ProficiencySystem.getAbilityForSkill, for the skills the engine checks
getAbilityForSkill(skillKey) ==
    IF skillKey = "bargaining" THEN "chaScore" ELSE "wisScore"

\* ProficiencySystem.calculateProficiencyScore: ability + fixed adjustment
calculateProficiencyScore(abilityScore, skillKey) ==
    abilityScore +
      (CASE skillKey = "bargaining" -> -2
         [] skillKey = "appraisal" -> -2
         [] skillKey = "trade" -> -1
         [] skillKey = "smuggling" -> -4
         [] skillKey = "customsInspection" -> -2
         [] skillKey = "piloting" -> 1
         [] OTHER -> 0)

\* ProficiencySystem.getCrewQualityModifier
getCrewQualityModifier(quality) ==
    CASE quality = "Landlubber" -> -2
      [] quality = "Green" -> -2
      [] quality = "Average" -> -1
      [] quality = "Trained" -> 0
      [] quality = "Crack" -> 1
      [] quality = "Old Salts" -> 2
      [] OTHER -> 0

\* the skills the engine reads from the score object
SkillKeys == {"bargaining", "appraisal", "trade", "smuggling", "customsInspection", "piloting"}

\* ProficiencySystem.createProficiencyScores: scores[skill] is <<score>>,
\* or <<>> (null) when the character lacks the skill
createProficiencyScores(character) ==
    [k \in SkillKeys |->
        IF k \in character.skills
        THEN <<calculateProficiencyScore(character[getAbilityForSkill(k)], k)>>
        ELSE <<>>]

\* ProficiencySystem.makeProficiencyCheck with the d20 as input.  The
\* result has the fields success, roll, needed and nothing else; hasRoll is
\* FALSE where the code returns roll: null.
makeProficiencyCheck(skillKey, proficiencyScores, lieutenantSkills, crewQualityMod, modifier, d20) ==
    LET captainScore == proficiencyScores[skillKey]
    IN  IF captainScore = <<>> /\ skillKey = "piloting"
        THEN LET unskilledScore == 10 - 4
                 roll == d20 + modifier + crewQualityMod
             IN  [success |-> roll <= unskilledScore, roll |-> roll,
                  needed |-> unskilledScore, hasRoll |-> TRUE]
        ELSE IF captainScore = <<>>
        THEN [success |-> FALSE, roll |-> 0, needed |-> 0, hasRoll |-> FALSE]
        ELSE LET ltBonus == IF skillKey \in lieutenantSkills
                               /\ skillKey # "smuggling" /\ skillKey # "piloting"
                            THEN 1 ELSE 0
                 smBonus == IF skillKey = "smuggling"
                               /\ (proficiencyScores["customsInspection"] # <<>>
                                   \/ "customsInspection" \in lieutenantSkills)
                            THEN 1 ELSE 0
                 roll == d20 + modifier + crewQualityMod + ltBonus + smBonus
             IN  [success |-> roll <= captainScore[1], roll |-> roll,
                  needed |-> captainScore[1], hasRoll |-> TRUE]

\* `check.roll % 2 === 1` (the remainder of a negative odd roll is -1)
OddRoll(check) == check.hasRoll /\ check.roll > 0 /\ check.roll % 2 = 1

\* ------------------------------------------------------------- navigation
\* NavigationSystem.assessWeatherHazard: hazard type and piloting modifier
assessWeatherHazard(weather) ==
    LET windSpeed == weather.wind
        precipType == weather.precip
        stormy == precipType \in {"hurricane", "gale", "tropical-storm", "thunderstorm"}
                  \/ windSpeed >= 30
        base == IF ~stormy THEN [hazardType |-> "null", pilotingModifier |-> 0]
                ELSE IF precipType = "hurricane" \/ windSpeed >= 75
                THEN [hazardType |-> "Critical", pilotingModifier |-> 10]
                ELSE IF precipType = "gale" \/ windSpeed >= 50
                THEN [hazardType |-> "Major", pilotingModifier |-> 5]
                ELSE [hazardType |-> "Minor", pilotingModifier |-> 2]
        fogMod == IF weather.sky = "heavy fog" THEN 6 ELSE 3
    IN  IF weather.sky \in {"fog", "heavy fog"}
        THEN IF base.hazardType = "null"
             THEN [hazardType |-> "Minor", pilotingModifier |-> fogMod]
             ELSE [base EXCEPT !.pilotingModifier = @ + fogMod]
        ELSE IF weather.sky = "mist" /\ base.hazardType = "null"
        THEN [hazardType |-> "Minor", pilotingModifier |-> 3]
        ELSE base

\* a comparison `missedBy >= lo && missedBy <= hi` of the code; every
\* comparison with undefined is false
Within(missedBy, lo, hi) == missedBy # <<>> /\ missedBy[1] >= lo /\ missedBy[1] <= hi

AtLeast(missedBy, lo) == missedBy # <<>> /\ missedBy[1] >= lo

\* NavigationSystem.calculateHazardDamage; d3, d4, d5, d6 are the dice
calculateHazardDamage(hazardType, missedBy, d3, d4, d5, d6) ==
    CASE hazardType = "Minor" ->
           (IF Within(missedBy, 1, 4) THEN 1
            ELSE IF Within(missedBy, 5, 7) THEN d3 + 1
            ELSE IF AtLeast(missedBy, 8) THEN d4 + 2
            ELSE 0)
      [] hazardType = "Major" ->
           (IF Within(missedBy, 1, 2) THEN 1
            ELSE IF Within(missedBy, 3, 4) THEN d3 + 1
            ELSE IF AtLeast(missedBy, 5) THEN d5 + 3
            ELSE 0)
      [] hazardType = "Critical" ->
           (IF Within(missedBy, 1, 2) THEN d3 + 1
            ELSE IF Within(missedBy, 3, 4) THEN d4 + 2
            ELSE IF Within(missedBy, 5, 7) THEN d5 + 3
            ELSE IF AtLeast(missedBy, 8) THEN d6 + 4
            ELSE 0)
      [] OTHER -> 0

\* the field pilotCheck.missedBy read by simulateSailingDay:
\* makeProficiencyCheck returns no such field, so the read is undefined
MissedByOf(pilotCheck) == <<>>

\* NavigationSystem.handleRowing
handleRowing(enableRowing, oarsmenCount, consecutiveRowingDays, baseRowingSpeed) ==
    IF ~enableRowing \/ oarsmenCount = 0
    THEN [canRow |-> FALSE, rowingSpeed |-> 0]
    ELSE [canRow |-> TRUE,
          rowingSpeed |-> IF consecutiveRowingDays > 3
                          THEN Floor(baseRowingSpeed, 2) ELSE baseRowingSpeed]

\* VoyageSimulator.calculateSailingSpeed; wetBonus is the 5..10 percent draw
calculateSailingSpeed(baseSpeed, weather, wetBonus) ==
    LET windSpeed == weather.wind
        dry == IF windSpeed < 20 THEN Max(1, baseSpeed - Floor(20 - windSpeed, 10) * 8)
               ELSE IF windSpeed <= 30 THEN baseSpeed
               ELSE baseSpeed + Floor(windSpeed - 30, 10) * 16
        wet == IF weather.precip \in {"drizzle", "rainstorm-light", "rainstorm-heavy", "hailstorm"}
               THEN dry + Floor(dry * wetBonus, 100) ELSE dry
    IN  IF windSpeed < 5 THEN [speed |-> 0, becalmed |-> TRUE]
        ELSE [speed |-> wet, becalmed |-> FALSE]

\* ------------------------------------------------------------- encounters
\* EncounterSystem.classifyEncounter for the table entries of the model
\* (SALT_WATER_SHALLOW tables): Shark (M/L, aggressive draw failed),
\* Whirlpool, "Whale, carnivorous" (a listed ship threat)
classifyEncounter(name) ==
    CASE name = "Whirlpool" -> "hazard"
      [] name = "Whale, carnivorous" -> "threat"
      [] OTHER -> "sighting"

\* EncounterSystem.canCreatureHarmShip: only size L/G or listed creatures
canCreatureHarmShip(name) ==
    IF name = "Whale, carnivorous"
    THEN [canHarm |-> TRUE, type |-> "large", canHarmCrew |-> TRUE]
    ELSE IF name = "Shark"
    THEN [canHarm |-> TRUE, type |-> "large", canHarmCrew |-> TRUE]
    ELSE [canHarm |-> FALSE, type |-> "small", canHarmCrew |-> FALSE]

\* hd of the table entry: the first number of the hd text
BaseHD(name) == IF name = "Whale, carnivorous" THEN 12 ELSE IF name = "Shark" THEN 3 ELSE 1

\* sides of the hull-damage die of a large creature: Math.max(2, 2 * hdBased)
DamageDie(totalHD) == Max(2, Max(1, Floor(totalHD, 10)) * 2)

\* EncounterSystem.calculateEncounterDamage; enc carries the table entry,
\* the number appearing and the rolls (dmgMax: the damage die shows its
\* highest face, otherwise 1)
calculateEncounterDamage(enc) ==
    LET classification == classifyEncounter(enc.name)
        harm == canCreatureHarmShip(enc.name)
        swallow == enc.name = "Whale, carnivorous"
        totalHD == BaseHD(enc.name) * enc.number
        roll == IF enc.dmgMax THEN DamageDie(totalHD) ELSE 1
    IN  IF classification \in {"sighting", "interactive"} \/ ~harm.canHarm
        THEN [hullDamage |-> 0, crewLoss |-> 0]
        ELSE [hullDamage |-> (IF swallow THEN 2 ELSE 0)
                             + (IF classification = "threat" /\ harm.type = "large"
                                THEN roll ELSE 0),
              crewLoss |-> IF classification = "threat" /\ harm.canHarmCrew /\ totalHD >= 6
                           THEN enc.crewRoll
                           ELSE IF swallow THEN 1 ELSE 0]

\* ------------------------------------------------------------------ route
\* VoyageSimulator.isCircuitRoute
isCircuitRoute(route) == route.circuit

\* the candidate leg from ports[k] to ports[k+1] of buildRouteLegs' loop
LegAt(ports, k) ==
    [fromID |-> ports[k], toID |-> ports[k + 1],
     distance |-> getDistance(ports[k], ports[k + 1])]

\* VoyageSimulator.buildRouteLegs: pairs without a distance are skipped, a
\* circuit gets the leg back to the first port
buildRouteLegs(route) ==
    LET ports == route.ports
        legs == SelectSeq([k \in 1..(Len(ports) - 1) |-> LegAt(ports, k)],
                          LAMBDA l : l.distance # NoDistance)
        lastPort == ports[Len(ports)]
        firstPort == ports[1]
        returnDist == getDistance(lastPort, firstPort)
    IN  IF isCircuitRoute(route) /\ Len(legs) > 0 /\ returnDist # NoDistance
        THEN Append(legs, [fromID |-> lastPort, toID |-> firstPort, distance |-> returnDist])
        ELSE legs

\* ----------------------------------------------------------------- ledger
\* VoyageSimulator.recordLedgerEntry
recordLedgerEntry(s, description, income, expense, setBalance) ==
    LET prevBalance == IF Len(s.ledger) > 0 THEN s.ledger[Len(s.ledger)].balance ELSE 0
        newBalance == IF setBalance THEN income ELSE prevBalance + income - expense
    IN  [s EXCEPT !.ledger = Append(@, [description |-> description,
                                        income |-> Amount(income),
                                        expense |-> Amount(expense),
                                        balance |-> newBalance])]

\* a variant of logEvent that puts the new event at the head of the log
logEventAtHead(s, type, source, sourceName, amount) ==
    [s EXCEPT !.events = <<[type |-> type, source |-> source,
                            sourceName |-> sourceName, amount |-> amount]>> \o @]

\* state.events.push of one structured event
logEvent(s, type, source, sourceName, amount) ==
    [s EXCEPT !.events = Append(@, [type |-> type, source |-> source,
                                    sourceName |-> sourceName, amount |-> amount])]

\* the portActivity record of a port call, on state.portActivities
openPortActivity(s, portName, portType, totalCost) ==
    [s EXCEPT !.portActivities = Append(@, [portName |-> portName, portType |-> portType,
                                            totalCost |-> totalCost, activities |-> <<>>])]

\* a variant of addActivity that writes into the record of the first port
\* call instead of the current one
addActivityToFirst(s, text) ==
    [s EXCEPT !.portActivities[1].activities = Append(@, text)]

\* a variant of addActivity that puts the new line before the lines the
\* port call has already recorded
addActivityAtHead(s, text) ==
    [s EXCEPT !.portActivities[Len(s.portActivities)].activities = <<text>> \o @]

\* portActivity.activities.push on the record of the current port call
addActivity(s, text) ==
    [s EXCEPT !.portActivities[Len(s.portActivities)].activities = Append(@, text)]

\* ------------------------------------------------------------ voyage state
\* the captain level of initializeVoyageState: config value, or the d10 table
CaptainLevel(config, d10) ==
    IF config.captain.level # 0 THEN config.captain.level
    ELSE IF d10 <= 4 THEN 5
    ELSE IF d10 <= 7 THEN 6
    ELSE IF d10 <= 9 THEN 7
    ELSE 8

\* the monthly wage initializeVoyageState pays a crew group by its role
RoleWage(role) ==
    CASE role \in {"sailor", "sailors"} -> 2
      [] role \in {"oarsman", "oarsmen"} -> 5
      [] role \in {"marine", "marines"} -> 3
      [] OTHER -> 0

\* the crew groups initializeVoyageState counts: paid roles, no officers
PaidRoles(crew) ==
    {r \in DOMAIN crew : r \notin {"lieutenant", "mate", "captain"} /\ RoleWage(r) > 0}

RECURSIVE SumOver(_, _, _)
SumOver(roles, crew, weighted) ==
    IF roles = {} THEN 0
    ELSE LET r == CHOOSE x \in roles : TRUE
         IN  crew[r] * (IF weighted THEN RoleWage(r) ELSE 1)
             + SumOver(roles \ {r}, crew, weighted)

\* dailyWageCost + dailyFoodCost of initializeVoyageState
DailyOperationalCost(ship, ltLevel, capLevel) ==
    LET totalCrewCount == SumOver(PaidRoles(ship.crew), ship.crew, FALSE)
        crewWage == SumOver(PaidRoles(ship.crew), ship.crew, TRUE)
        requiredLieutenants == Max(1, Ceil(totalCrewCount, 20))
        requiredMates == Max(2, Ceil(totalCrewCount, 10))
        monthlyWage == crewWage + requiredMates * 30
                       + requiredLieutenants * (ltLevel * 100) + capLevel * 100
        totalSouls == totalCrewCount + requiredMates + requiredLieutenants + 1
    IN  Ceil(monthlyWage, 30) + Ceil(totalSouls, 5)

\* foundry.utils.deepClone: an equal object with an identity of its own
deepClone(obj) == [obj EXCEPT !.oid = "instance"]

\* a variant of createInstance that hands out the template itself
createInstanceShared(registry, id) == registry[id]

\* ShipRegistry.createInstance (the throw on a missing template is
\* initializeThrows)
createInstance(registry, id) == deepClone(registry[id])

\* what the registry holds after the handler has written to the ship
\* object obj: a template is changed exactly when obj is that very object
writeThrough(registry, obj) ==
    [id \in DOMAIN registry |-> IF registry[id].oid = obj.oid THEN obj ELSE registry[id]]

\* VoyageSimulator.initializeVoyageState (d10: the captain-level roll)
initializeVoyageState(registry, config, d10) ==
    LET ship == createInstance(registry, config.shipId)
        ltLevel == IF config.lieutenant.level # 0 THEN config.lieutenant.level ELSE 3
        capLevel == CaptainLevel(config, d10)
    IN  [ship |-> ship,
         currentCrew |-> ship.crew,
         route |-> Route(config.routeId),
         captain |-> [config.captain EXCEPT !.level = capLevel],
         captainProficiencyScores |-> createProficiencyScores(config.captain),
         lieutenantSkills |-> config.lieutenant.skills,
         tradeMode |-> config.tradeMode,
         commissionRate |-> config.commissionRate,
         autoRepair |-> config.autoRepair,
         enableRowing |-> config.enableRowing,
         automateTrading |-> config.automateTrading,
         crewQualityMod |-> getCrewQualityModifier(config.crewQuality),
         mode |-> IF config.mode = "manual" THEN "manual" ELSE "auto",
         treasury |-> config.startingGold,
         startingCapital |-> config.startingGold,
         crewEarningsFromTrade |-> 0,
         revenueTotal |-> 0,
         expenseTotal |-> 0,
         ledger |-> <<>>,
         dailyOperationalCost |-> DailyOperationalCost(ship, ltLevel, capLevel),
         legAccumulatedCost |-> 0,
         currentCargo |-> [type |-> "null", loads |-> 0, purchasePrice |-> 0,
                           purchaseLegIndex |-> Undefined],
         totalDays |-> 0,
         day |-> UndefinedNum,
         log |-> <<>>,
         totalHullDamage |-> ship.hullPoints.max - ship.hullPoints.value,
         consecutiveRowingDays |-> 0,
         position |-> [routeSegment |-> 0, milesOnSegment |-> 0],
         portsVisited |-> <<>>,
         portActivities |-> <<>>,
         events |-> <<>>,
         maintenance |-> [daysSinceService |-> 0, speedPenalty |-> 0],
         flags |-> [atSea |-> TRUE, inPort |-> FALSE, finished |-> FALSE]]

\* initializeVoyageState runs before the validation and throws on a ship
\* id without a template (ShipRegistry.createInstance) and on a non-empty
\* route id without a route (RouteRegistry.get(..).ports)
initializeThrows(config) ==
    \/ config.shipId \notin KnownShips
    \/ (config.routeId # "" /\ config.routeId \notin KnownRoutes)

\* startVoyage: the id the voyage is registered and saved under
VoyageId(config) == IF config.voyageId # "" THEN config.voyageId ELSE "uuid"

\* a variant of the validation that lets negative starting gold through
validatevoyageConfigAnyGold(config) ==
    /\ config.shipId \in KnownShips
    /\ config.routeId \in KnownRoutes
    /\ ~(config.tradeMode = "consignment"
         /\ (config.commissionRate < 10 \/ config.commissionRate > 40))
    /\ config.captain.name # ""

\* VoyageSimulator.validatevoyageConfig
validatevoyageConfig(config) ==
    /\ config.shipId \in KnownShips
    /\ config.routeId \in KnownRoutes
    /\ ~(config.startingGold < 0)
    /\ ~(config.tradeMode = "consignment"
         /\ (config.commissionRate < 10 \/ config.commissionRate > 40))
    /\ config.captain.name # ""

\* -------------------------------------------------------------- port fees
\* VoyageSimulator.calculatePortFees; entrance is the 1d10+10 total,
\* berthRoll the 1d100.  damagePercent > 10 is compared without division.
calculatePortFees(s, daysInPort, entrance, berthRoll) ==
    LET hp == s.ship.hullPoints
        needsRepair == (hp.max - hp.value) * 100 > 10 * hp.max
        berthIsCheap == hp.max <= 5
        berthAvailable == berthRoll <= 80
        moorageCost == IF berthAvailable /\ (needsRepair \/ berthIsCheap)
                       THEN hp.max * daysInPort ELSE 5 * daysInPort
    IN  [entrance |-> entrance, pilot |-> hp.max, moorage |-> moorageCost,
         total |-> entrance + hp.max + moorageCost]

\* the fee payment both port handlers make after calculatePortFees
\* a variant of the fee payment that takes the fees from the treasury and
\* the ledger without adding them to expenseTotal
PayPortFeesUnbooked(s, portName, daysInPort, entrance, berthRoll) ==
    Then(calculatePortFees(s, daysInPort, entrance, berthRoll).total,
         LAMBDA total :
            Then([s EXCEPT !.treasury = @ - total],
                 LAMBDA paid : recordLedgerEntry(paid, "Port fees", 0, total, FALSE)))

\* the fee payment at a port: calculatePortFees, then treasury, expenseTotal
\* and the ledger entry
PayPortFees(s, portName, daysInPort, entrance, berthRoll) ==
    Then(calculatePortFees(s, daysInPort, entrance, berthRoll).total,
         LAMBDA total :
            Then([s EXCEPT !.treasury = @ - total, !.expenseTotal = @ + total],
                 LAMBDA paid : recordLedgerEntry(paid, "Port fees", 0, total, FALSE)))

\* ---------------------------------------------------------------- repairs
\* ShipRepairSystem.canRepairAtPort
canRepairAtPort(portSize) == portSize \in {"Minor Port", "Port", "Major Port"}

\* ShipRepairSystem.calculateProfessionalRepairCost (.cost)
calculateProfessionalRepairCost(hullDamage) == 100 * hullDamage

\* a variant of shouldAutoRepair with the threshold of its doc comment
\* ("repair if damage >= 25% of max hull")
shouldAutoRepairQuarter(currentHull, maxHull, treasury) ==
    LET damage == maxHull - currentHull
    IN  IF damage * 100 < 25 * maxHull THEN <<>>
        ELSE IF treasury >= 100 * damage THEN <<100 * damage>>
        ELSE <<>>

\* ShipRepairSystem.shouldAutoRepair: <<cost>> for a professional repair,
\* <<>> for null
shouldAutoRepair(currentHull, maxHull, treasury) ==
    LET damage == maxHull - currentHull
    IN  IF damage * 100 < 10 * maxHull THEN <<>>
        ELSE IF treasury >= calculateProfessionalRepairCost(damage)
        THEN <<calculateProfessionalRepairCost(damage)>>
        ELSE <<>>

\* VoyageSimulator.offerShipRepairs.  Without automation the dialog is
\* opened with no arguments: both repair buttons are disabled and the
\* choice is null.
offerShipRepairs(s, portId) ==
    LET hp == s.ship.hullPoints
        repairChoice == IF s.automateTrading
                        THEN shouldAutoRepair(hp.value, hp.max, s.treasury)
                        ELSE <<>>
    IN  IF hp.max - hp.value = 0 \/ ~canRepairAtPort(PortSize(portId))
           \/ repairChoice = <<>>
        THEN s
        ELSE Then([s EXCEPT !.treasury = @ - repairChoice[1],
                            !.expenseTotal = @ + repairChoice[1],
                            !.ship.hullPoints.value = hp.max],
                  LAMBDA repaired :
                     addActivity(recordLedgerEntry(repaired, "Ship repairs", 0,
                                                   repairChoice[1], FALSE),
                                 "Repaired hull points"))

\* ------------------------------------------------------------- passengers
\* PassengerBooking.calculatePassengerRevenue
calculatePassengerRevenue(passengers, distance) == passengers * 20 * Ceil(distance, 500)

\* PassengerBooking.offerCharterOpportunity: the fee; declined only in the
\* dialog shown without automation
CharterFee(d2d20) == Max(100, 40 * Ceil(d2d20 * 100, 500))

\* PassengerBooking.handlePassengerBooking: revenueEarned.  dice holds the
\* 2d4, the 1d4, the charter 1d100, the charter 2d20 and the dialog answer.
handlePassengerBooking(portId, routeDistanceLeft, automateTrading, dice) ==
    LET regularPassengers ==
            Max(0, dice.p2d4 - dice.p1d4 + getSizeModifier(PortSize(portId)))
        regular == IF regularPassengers > 0 /\ routeDistanceLeft > 0
                   THEN calculatePassengerRevenue(regularPassengers, routeDistanceLeft)
                   ELSE 0
        charter == IF dice.charter <= 5 /\ (automateTrading \/ dice.accept)
                   THEN CharterFee(dice.c2d20) ELSE 0
    IN  regular + charter

\* the passenger step of processPort
BookPassengers(s, portId, distanceRemaining, dice) ==
    Then(handlePassengerBooking(portId, distanceRemaining, s.automateTrading, dice),
         LAMBDA revenueEarned :
            IF distanceRemaining > 0 /\ revenueEarned > 0
            THEN Then([s EXCEPT !.treasury = @ + revenueEarned,
                                !.revenueTotal = @ + revenueEarned],
                      LAMBDA paid : recordLedgerEntry(paid, "Passenger Revenue",
                                                      revenueEarned, 0, FALSE))
            ELSE s)

\* --------------------------------------------------------------- strategy
\* the distances of a list of legs
RECURSIVE SumDistance(_)
SumDistance(legs) ==
    IF legs = <<>> THEN 0 ELSE Head(legs).distance + SumDistance(Tail(legs))

\* TradingStrategy.calculateBestSaleDistance: the running total, returned
\* as soon as it exceeds 500
RECURSIVE BestSaleFrom(_, _)
BestSaleFrom(legs, cumulative) ==
    IF legs = <<>> THEN cumulative
    ELSE IF cumulative + Head(legs).distance > 500 THEN cumulative + Head(legs).distance
    ELSE BestSaleFrom(Tail(legs), cumulative + Head(legs).distance)

calculateBestSaleDistance(remainingLegs) == BestSaleFrom(remainingLegs, 0)

\* TradingStrategy.getDistanceBonus
getDistanceBonus(distance) ==
    IF distance > 500 THEN 4
    ELSE IF distance > 250 THEN 2
    ELSE IF distance > 80 THEN 0
    ELSE -1

\* TradingStrategy.estimateSalePercent
estimateSalePercent(distanceBonus) == getSaleAdjustment(10 + distanceBonus)

\* Math.floor(currentTreasury * share / pricePerLoad), share in tenths
MaxAffordable(currentTreasury, tenths, pricePerLoad) ==
    Floor(currentTreasury * tenths, 10 * pricePerLoad)

\* TradingStrategy.evaluatePurchase: shouldBuy and maxLoads
evaluatePurchase(cargoType, pricePerLoad, loadsAvailable, shipCapacity, currentTreasury, isFinalPort, remainingLegs) ==
    LET baseValue == BaseValue(cargoType)
        bestSaleDistance == calculateBestSaleDistance(remainingLegs)
        expectedSalePrice ==
            Floor(baseValue * estimateSalePercent(getDistanceBonus(bestSaleDistance)), 100)
        expectedProfitPerLoad == expectedSalePrice - pricePerLoad
        buy(tenths) ==
            [shouldBuy |-> TRUE,
             maxLoads |-> Min(Min(shipCapacity, loadsAvailable),
                              MaxAffordable(currentTreasury, tenths, pricePerLoad))]
        refuse == [shouldBuy |-> FALSE, maxLoads |-> 0]
    IN  IF isFinalPort THEN refuse
        ELSE IF pricePerLoad * 100 > 110 * baseValue /\ expectedProfitPerLoad < 0 THEN refuse
        ELSE IF bestSaleDistance > 500 THEN buy(8)
        ELSE IF bestSaleDistance < 250
        THEN (IF pricePerLoad * 100 <= 85 * baseValue THEN buy(5) ELSE refuse)
        ELSE IF pricePerLoad <= baseValue \/ expectedProfitPerLoad > 0 THEN buy(7)
        ELSE refuse

\* TradingStrategy.evaluateSale: shouldSell
evaluateSale(distanceTraveled, distanceToNextPort, isFinalPort) ==
    LET currentDistanceBonus == getDistanceBonus(distanceTraveled)
        futureDistanceBonus == getDistanceBonus(distanceTraveled + distanceToNextPort)
    IN  IF isFinalPort THEN TRUE
        ELSE IF currentDistanceBonus < 4 /\ futureDistanceBonus >= 4 THEN FALSE
        ELSE IF currentDistanceBonus >= 2 THEN TRUE
        ELSE IF futureDistanceBonus > currentDistanceBonus + 1 THEN FALSE
        ELSE TRUE

\* --------------------------------------------------------------- purchase
\* the -1 / 0 / +1 adjustment of a check: success, odd failure, even failure
CheckAdjust(check) == IF check.success THEN 1 ELSE IF OddRoll(check) THEN -1 ELSE 0

\* CargoPurchasing.rollCargoOffer; dice holds the 3d6 type roll, the 3d8
\* quantity roll and the d20s of the appraisal and bargaining checks
rollCargoOffer(portId, scores, lieutenantSkills, crewQualityMod, dice) ==
    LET portSizeMod == getSizeModifier(PortSize(portId))
        appCheck == makeProficiencyCheck("appraisal", scores, lieutenantSkills,
                                         crewQualityMod, 0, dice.app)
        appraisalAdjust == IF scores["appraisal"] # <<>> THEN CheckAdjust(appCheck) ELSE 0
        cargoKey == determineTypeFromRoll(
                        Clamp(dice.t3d6 + portSizeMod + appraisalAdjust, 3, 20))
        bargainCheck == makeProficiencyCheck("bargaining", scores, lieutenantSkills,
                                             crewQualityMod, 0, dice.barg)
        bargainAdjustPercent ==
            IF scores["bargaining"] = <<>> THEN 0
            ELSE IF bargainCheck.success
            THEN -(Clamp(bargainCheck.needed - bargainCheck.roll, 0, 5) * 5)
            ELSE Clamp(bargainCheck.roll - bargainCheck.needed, 0, 5) * 5
    IN  [cargoType |-> cargoKey,
         pricePerLoad |-> Max(1, Floor(BaseValue(cargoKey) * (100 + bargainAdjustPercent), 100)),
         loadsAvailable |-> Max(1, dice.q3d8 - dice.t3d6)]

\* allLegs.slice(from) for a 0-based index
LegsFrom(allLegs, from) == SubSeq(allLegs, from + 1, Len(allLegs))

\* VoyageSimulator.attemptStrategicPurchase (legIndex -1 is the origin).
\* merchantCount is Math.max(1, ...), so the no-merchant return never runs.
attemptStrategicPurchase(s, portId, legIndex, allLegs, dice) ==
    LET isOriginPort == legIndex = -1
        remainingLegs == IF isOriginPort THEN allLegs ELSE LegsFrom(allLegs, legIndex + 1)
    IN  Then(rollCargoOffer(portId, s.captainProficiencyScores,
                            s.lieutenantSkills, s.crewQualityMod, dice),
          LAMBDA cargoOffer :
        Then(evaluatePurchase(cargoOffer.cargoType, cargoOffer.pricePerLoad,
                              cargoOffer.loadsAvailable,
                              s.ship.cargoCapacity - s.currentCargo.loads,
                              s.treasury, FALSE, remainingLegs),
          LAMBDA buyEval :
        Then(Min(buyEval.maxLoads, cargoOffer.loadsAvailable),
          LAMBDA loadsToBuy :
        Then(loadsToBuy * cargoOffer.pricePerLoad,
          LAMBDA totalCost :
            IF ~buyEval.shouldBuy THEN s
            ELSE Then([s EXCEPT !.treasury = @ - totalCost,
                                !.expenseTotal = @ + totalCost],
                   LAMBDA paid :
                     addActivity(
                       [recordLedgerEntry(paid, "Purchased", 0, totalCost, FALSE)
                        EXCEPT !.currentCargo =
                           [type |-> cargoOffer.cargoType, loads |-> loadsToBuy,
                            purchasePrice |-> cargoOffer.pricePerLoad,
                            purchaseLegIndex |-> IF isOriginPort THEN 0 ELSE legIndex]],
                       "Purchased loads"))))))

\* ------------------------------------------------------------ port agents
\* PortAgentSystem.isAvailable; enabled is the portAgentsEnabled setting
isAvailable(portSize, enabled) ==
    enabled /\ portSize \in {"Minor Port", "Port", "Major Port"}

\* PortAgentSystem.shouldAutoHire
shouldAutoHire(scores, portSize, enabled) ==
    isAvailable(portSize, enabled)
    /\ scores["bargaining"] = <<>> /\ scores["appraisal"] = <<>>

\* PortAgentSystem.generateAgent: the agent's score object
AgentScores(skillScore) ==
    [k \in SkillKeys |-> IF k \in {"bargaining", "appraisal"} THEN <<skillScore>> ELSE <<>>]

\* PortAgentSystem.calculateFee
calculateFee(transactionValue, feePercent) == Floor(transactionValue * feePercent, 100)

\* ------------------------------------------------------------ perishability
\* CargoPerishability.calculateExcessUnits
calculateExcessUnits(category, actualDistance) ==
    IF category = "Short" /\ actualDistance > 80
    THEN (IF actualDistance > 500 THEN 3 ELSE IF actualDistance > 250 THEN 2 ELSE 1)
    ELSE IF category = "Medium" /\ actualDistance > 250
    THEN (IF actualDistance > 500 THEN 2 ELSE 1)
    ELSE IF category = "Long" /\ actualDistance > 500 THEN 1
    ELSE 0

\* CargoPerishability.rollSpoilage: totalLost; spoil[u] says whether the
\* 1d100 of unit u came up 25 or less
RECURSIVE rollSpoilage(_, _, _, _)
rollSpoilage(excessUnits, startingLoads, spoil, totalLost) ==
    IF excessUnits = 0 THEN totalLost
    ELSE rollSpoilage(excessUnits - 1, startingLoads, Tail(spoil),
                      IF Head(spoil) THEN totalLost + Ceil(startingLoads - totalLost, 4)
                      ELSE totalLost)

\* CargoPerishability.applyPerishability (with checkPerishability):
\* loadsRemaining and loadsLost
applyPerishability(distanceRollInfo, currentLoads, spoil) ==
    LET excessUnits == calculateExcessUnits(distanceRollInfo.category,
                                            distanceRollInfo.actualDistance)
        totalLost == IF distanceRollInfo.actualDistance <= distanceRollInfo.threshold
                     THEN 0 ELSE rollSpoilage(excessUnits, currentLoads, spoil, 0)
    IN  [loadsRemaining |-> currentLoads - totalLost, loadsLost |-> totalLost]

\* ------------------------------------------------------------------- sale
\* CargoSelling.getDemandModifier
getDemandModifier(roll) ==
    IF roll <= 3 THEN -5
    ELSE IF roll <= 5 THEN -4
    ELSE IF roll = 6 THEN -3
    ELSE IF roll = 7 THEN -2
    ELSE IF roll <= 9 THEN -1
    ELSE IF roll <= 11 THEN 0
    ELSE IF roll <= 13 THEN 1
    ELSE IF roll = 14 THEN 2
    ELSE IF roll = 15 THEN 3
    ELSE IF roll <= 17 THEN 4
    ELSE 5

\* CargoSelling.processCustomsAppraisal: the appraised cargo value
processCustomsAppraisal(cargoType, loads, profScores, ltSkills, crewQualityMod, d20) ==
    LET baseValue == BaseValue(cargoType) * loads
        aprCheck == makeProficiencyCheck("appraisal", profScores, ltSkills,
                                         crewQualityMod, 0, d20)
        adjustmentPercent ==
            IF profScores["appraisal"] # <<>> /\ ~aprCheck.success /\ OddRoll(aprCheck)
            THEN -((aprCheck.roll - aprCheck.needed) * 5) ELSE 0
    IN  Max(0, Floor(baseValue * (100 + adjustmentPercent), 100))

\* the distance roll of calculateSalePrice: modifier, category, threshold
DistanceRoll(distance, d6) ==
    IF distance > 500
    THEN [mod |-> 4, category |-> "Extraordinary", threshold |-> 500, actualDistance |-> distance]
    ELSE IF d6 <= 2
    THEN [mod |-> -1, category |-> "Short", threshold |-> 80, actualDistance |-> distance]
    ELSE IF d6 <= 5
    THEN [mod |-> 0, category |-> "Medium", threshold |-> 250, actualDistance |-> distance]
    ELSE [mod |-> 2, category |-> "Long", threshold |-> 500, actualDistance |-> distance]

\* CargoSelling.calculateSalePrice: pricePerLoad and the distance roll
calculateSalePrice(cargoType, portSizeMod, distance, profScores, ltSkills, crewQualityMod, agentPenalty, dice) ==
    LET check(skill, d20) ==
            makeProficiencyCheck(skill, profScores, ltSkills, crewQualityMod, 0, d20)
        tradeCheck == check("trade", dice.trade)
        demandRollModified ==
            dice.dm3d6 + (IF profScores["trade"] = <<>> THEN 0
                          ELSE 4 * CheckAdjust(tradeCheck))
        demandMod == getDemandModifier(demandRollModified) + portSizeMod
                     - (IF agentPenalty THEN 1 ELSE 0)
        distanceRollInfo == DistanceRoll(distance, dice.dist)
        preciousBonus == IF cargoType = "precious" /\ dice.precious <= 10 THEN 4 ELSE 0
        bargCheck == check("bargaining", dice.barg)
        hasBarg == profScores["bargaining"] # <<>>
        sellBargAdj == IF hasBarg THEN CheckAdjust(bargCheck) ELSE 0
        bargainMargin == IF hasBarg /\ bargCheck.success
                         THEN Min(5, bargCheck.needed - bargCheck.roll) ELSE 0
        sellAppAdj == IF profScores["appraisal"] # <<>>
                      THEN CheckAdjust(check("appraisal", dice.app)) ELSE 0
        noSkills == \A k \in {"bargaining", "appraisal", "trade"} :
                        profScores[k] = <<>> \/ profScores[k] = <<0>>
        saBase == dice.sa3d6 + demandMod + distanceRollInfo.mod + preciousBonus
                  + sellBargAdj + sellAppAdj - (IF noSkills THEN 2 ELSE 0)
        bargainBonus == Min(25, bargainMargin * 5)
        finalPercent == Floor(getSaleAdjustment(saBase) * (100 + bargainBonus), 100)
    IN  [pricePerLoad |-> Max(1, Floor(BaseValue(cargoType) * finalPercent, 100)),
         distanceRollInfo |-> distanceRollInfo]

\* calculateTransportFee of cargo-sell.js (loads are whole numbers; the
\* fee is tons * 40 * segments with tons = loads / 2)
calculateTransportFee(loads, distanceMiles) ==
    Max(loads * 20 * Ceil(distanceMiles, 500), 100)

\* CargoSelling.handleCargoSale.  dice: the portAgentsEnabled setting, the
\* dialog answers (hireAgent, smuggle), the agent rolls, the 2d10 tax roll,
\* the d20s of the checks, the demand, distance, precious and SA rolls, and
\* the spoilage outcomes.
handleCargoSale(portId, currentTreasury, scores, lieutenantSkills, automateTrading, currentCargoType, currentLoads, currentPurchaseCost, tradeMode, commissionRate, distanceTraveled, crewQualityMod, crewEarningsFromTrade, dice) ==
    LET portSize == PortSize(portId)
        useAgent == IF automateTrading
                    THEN shouldAutoHire(scores, portSize, dice.agentsEnabled)
                    ELSE isAvailable(portSize, dice.agentsEnabled) /\ dice.hireAgent
        effectiveSkills == IF useAgent THEN AgentScores(dice.agentSkill) ELSE scores
        ltSkills == IF useAgent THEN {} ELSE lieutenantSkills
        qualityMod == IF useAgent THEN 0 ELSE crewQualityMod
        baseTaxPercent == Clamp(dice.tax2d10, 1, 100)
        estimatedTax == Floor(BaseValue(currentCargoType) * currentLoads * baseTaxPercent, 100)
        canSmuggle == ~useAgent /\ scores["smuggling"] # <<>> /\ scores["smuggling"][1] > 0
        attemptSmuggling ==
            canSmuggle /\ (IF automateTrading
                           THEN scores["smuggling"][1] >= 12 /\ estimatedTax > 500
                           ELSE dice.smuggle)
        smugglingCheck == makeProficiencyCheck("smuggling", scores, lieutenantSkills,
                                               crewQualityMod, 0, dice.smug)
        cargoValue == processCustomsAppraisal(currentCargoType, currentLoads,
                                              effectiveSkills, ltSkills, qualityMod, dice.cust)
        finalTaxAmount == IF attemptSmuggling
                          THEN (IF smugglingCheck.success THEN 0 ELSE estimatedTax * 10)
                          ELSE Floor(cargoValue * baseTaxPercent, 100)
    IN  Then(calculateSalePrice(currentCargoType,
                                getSizeModifier(portSize), distanceTraveled,
                                effectiveSkills, ltSkills, qualityMod, useAgent, dice),
          LAMBDA saleResult :
        Then(applyPerishability(saleResult.distanceRollInfo, currentLoads, dice.spoil),
          LAMBDA perishResult :
        Then(finalTaxAmount,
          LAMBDA taxAmount :
            LET actualLoads == perishResult.loadsRemaining
                actualPurchaseCost ==
                    IF perishResult.loadsLost > 0
                    THEN Floor(currentPurchaseCost * actualLoads, currentLoads)
                    ELSE currentPurchaseCost
                totalSaleValue == saleResult.pricePerLoad * actualLoads
                agentFee == IF useAgent
                            THEN calculateFee(totalSaleValue, dice.agentFee) ELSE 0
                cargoGrossProfit == totalSaleValue - actualPurchaseCost - agentFee
                commissionAmount == Floor(totalSaleValue * commissionRate, 100)
                crewCommissionShare == Floor(commissionAmount * 40, 100)
                ownerShare ==
                    IF tradeMode = "speculation"
                    THEN (IF cargoGrossProfit > 0
                          THEN actualPurchaseCost + Floor(cargoGrossProfit, 2)
                          ELSE totalSaleValue - agentFee)
                    ELSE IF tradeMode = "consignment"
                    THEN commissionAmount - crewCommissionShare
                         + Floor(calculateTransportFee(currentLoads, distanceTraveled), 2)
                    ELSE 0
                crewShare ==
                    IF tradeMode = "speculation"
                    THEN (IF cargoGrossProfit > 0
                          THEN cargoGrossProfit - Floor(cargoGrossProfit, 2) ELSE 0)
                    ELSE IF tradeMode = "consignment" THEN crewCommissionShare
                    ELSE 0
            IN  IF perishResult.loadsRemaining = 0
                THEN [newTreasury |-> currentTreasury,
                      newCrewEarningsFromTrade |-> crewEarningsFromTrade,
                      taxAmount |-> 0, totalSaleValueForOwner |-> 0, spoiledAll |-> TRUE]
                ELSE [newTreasury |-> currentTreasury + ownerShare - taxAmount,
                      newCrewEarningsFromTrade |-> crewEarningsFromTrade + crewShare,
                      taxAmount |-> taxAmount, totalSaleValueForOwner |-> ownerShare,
                      loadsSold |-> currentLoads,
                      salePricePerLoad |-> saleResult.pricePerLoad,
                      totalSaleValueToConsignor |->
                          IF tradeMode = "consignment"
                          THEN totalSaleValue - commissionAmount ELSE 0,
                      crewDirectTradeEarnings |-> crewShare,
                      spoiledAll |-> FALSE])))

\* the empty hold: { type: null, loads: 0, purchasePrice: 0 }
EmptyCargo ==
    [type |-> "null", loads |-> 0, purchasePrice |-> 0, purchaseLegIndex |-> Undefined]

\* VoyageSimulator.attemptCargoSale
attemptCargoSale(s, portId, distanceTraveled, dice) ==
    Then(handleCargoSale(portId, s.treasury, s.captainProficiencyScores,
                      s.lieutenantSkills, s.automateTrading, s.currentCargo.type,
                      s.currentCargo.loads,
                      s.currentCargo.purchasePrice * s.currentCargo.loads,
                      s.tradeMode, s.commissionRate, distanceTraveled,
                      s.crewQualityMod, s.crewEarningsFromTrade, dice),
      LAMBDA result :
        IF result.spoiledAll THEN [s EXCEPT !.currentCargo = EmptyCargo]
        ELSE
        Then([s EXCEPT !.treasury = result.newTreasury,
                       !.crewEarningsFromTrade = result.newCrewEarningsFromTrade,
                       !.expenseTotal = @ + result.taxAmount,
                       !.revenueTotal = IF result.totalSaleValueForOwner > 0
                                        THEN @ + result.totalSaleValueForOwner ELSE @],
          LAMBDA paid :
        Then(IF result.totalSaleValueForOwner > 0
             THEN recordLedgerEntry(paid, "Sold", result.totalSaleValueForOwner, 0, FALSE)
             ELSE paid,
          LAMBDA sold :
        Then(IF result.taxAmount > 0
             THEN recordLedgerEntry(sold, "Customs tax", 0, result.taxAmount, FALSE)
             ELSE sold,
          LAMBDA taxed : [taxed EXCEPT !.currentCargo = EmptyCargo]))))

\* the route distance loadConsignmentCargo adds up over route.ports
RECURSIVE RouteDistance(_)
RouteDistance(ports) ==
    IF Len(ports) < 2 THEN 0
    ELSE getDistance(ports[1], ports[2]) + RouteDistance(Tail(ports))

\* VoyageSimulator.loadConsignmentCargo
loadConsignmentCargo(s) ==
    LET loads == s.ship.cargoCapacity
        segments == Ceil(RouteDistance(s.route.ports), 500)
        totalTransportFee == Max(loads * 20 * segments, 100)
        upfrontPayment == Floor(totalTransportFee, 2)
    IN  Then([s EXCEPT !.currentCargo = [type |-> "consumer", loads |-> loads,
                                         purchasePrice |-> 0,
                                         purchaseLegIndex |-> Undefined],
                       !.treasury = @ + upfrontPayment,
                       !.revenueTotal = @ + upfrontPayment],
          LAMBDA loaded :
            addActivity(addActivity(recordLedgerEntry(loaded, "Consignment Upfront Payment",
                                                      upfrontPayment, 0, FALSE),
                                    "Loaded on consignment"),
                        "Received upfront transport payment"))

\* ------------------------------------------------------------ sailing day
\* a variant of the daily charge that forgets to add the cost to
\* legAccumulatedCost
ChargeDailyCostUnaccumulated(s) ==
    IF s.dailyOperationalCost # 0
    THEN [s EXCEPT !.expenseTotal = @ + s.dailyOperationalCost,
                   !.treasury = @ - s.dailyOperationalCost]
    ELSE s

\* the daily wages and provisions every simulated day charges first
ChargeDailyCost(s) ==
    IF s.dailyOperationalCost # 0
    THEN [s EXCEPT !.expenseTotal = @ + s.dailyOperationalCost,
                   !.treasury = @ - s.dailyOperationalCost,
                   !.legAccumulatedCost = @ + s.dailyOperationalCost]
    ELSE s

\* a variant of the crew-loss step that takes the marines first
LoseCrewMarinesFirst(crew, crewLoss) ==
    LET lostMarines == Min(crew["marine"], crewLoss)
    IN  [crew EXCEPT !["marine"] = @ - lostMarines,
                     !["sailor"] = @ - Min(@, crewLoss - lostMarines)]

\* the crew-loss step of the encounter loop: sailors first, then marines
LoseCrew(crew, crewLoss) ==
    LET hasSailors == "sailor" \in DOMAIN crew
        lostSailors == IF hasSailors THEN Min(crew["sailor"], crewLoss) ELSE 0
        afterSailors == IF hasSailors THEN [crew EXCEPT !["sailor"] = @ - lostSailors] ELSE crew
        remainingLosses == crewLoss - lostSailors
    IN  IF remainingLosses > 0 /\ "marine" \in DOMAIN crew
        THEN [afterSailors EXCEPT !["marine"] = @ - Min(@, remainingLosses)]
        ELSE afterSailors

\* the encounter loop of simulateSailingDay: hull and crew after the
\* encounters, stopping after the one that brings the hull to 0 or less
RECURSIVE ApplyEncounters(_, _)
ApplyEncounters(s, encounters) ==
    IF encounters = <<>> THEN s
    ELSE Then(calculateEncounterDamage(Head(encounters)),
           LAMBDA encounterDamage :
         Then(logEvent(s, "encounter", "encounter", Head(encounters).name,
                       Head(encounters).number),
           LAMBDA met :
         Then(IF encounterDamage.hullDamage > 0
              THEN logEvent([met EXCEPT
                                !.ship.hullPoints.value = @ - encounterDamage.hullDamage,
                                !.totalHullDamage = @ + encounterDamage.hullDamage],
                            "damage", "encounter", Head(encounters).name,
                            encounterDamage.hullDamage)
              ELSE met,
           LAMBDA hit :
         Then(IF encounterDamage.crewLoss > 0
              THEN logEvent([hit EXCEPT !.currentCrew = LoseCrew(@, encounterDamage.crewLoss)],
                            "crew_loss", "encounter", Head(encounters).name,
                            encounterDamage.crewLoss)
              ELSE hit,
           LAMBDA after :
             IF after.ship.hullPoints.value <= 0 THEN after
             ELSE ApplyEncounters(after, Tail(encounters))))))

\* a variant of the sinking test that never reports the ship as sunk
ShipNeverSank(s) == FALSE

\* whether simulateSailingDay reports the ship as sunk
ShipSank(s) == s.ship.hullPoints.value <= 0

\* VoyageSimulator.simulateSailingDay: the state after the day, the
\* distance covered and shipSank.  dice: the weather, the wet-sail draw,
\* the piloting d20, the hazard damage dice and the day's encounters.
simulateSailingDay(s, remaining, dice) ==
    LET charged == ChargeDailyCost(s)
        speedInfo == calculateSailingSpeed(s.ship.movement * 8, dice.weather, dice.wet)
        rowingInfo == handleRowing(s.enableRowing, CrewCount(s.ship.crew, "oarsmen"),
                                   s.consecutiveRowingDays, 8)
        rows == speedInfo.becalmed /\ s.enableRowing /\ rowingInfo.canRow
        hazard == assessWeatherHazard(dice.weather)
        pilotCheck == makeProficiencyCheck("piloting", s.captainProficiencyScores,
                          s.lieutenantSkills, s.crewQualityMod,
                          hazard.pilotingModifier, dice.pilot)
        damage == IF ~speedInfo.becalmed /\ hazard.hazardType # "null" /\ ~pilotCheck.success
                  THEN calculateHazardDamage(hazard.hazardType, MissedByOf(pilotCheck),
                                             dice.d3, dice.d4, dice.d5, dice.d6)
                  ELSE 0
        failed == ~speedInfo.becalmed /\ hazard.hazardType # "null" /\ ~pilotCheck.success
    IN  Then([charged EXCEPT
                     !.consecutiveRowingDays =
                         IF speedInfo.becalmed THEN (IF rows THEN @ + 1 ELSE @) ELSE 0,
                     !.ship.hullPoints.value = @ - damage,
                     !.totalHullDamage = @ + damage],
          LAMBDA weathered :
        Then(IF failed
             THEN logEvent(weathered, "damage", "weather", hazard.hazardType, damage)
             ELSE weathered,
          LAMBDA sailed :
        Then(ApplyEncounters(sailed, dice.encounters),
          LAMBDA after :
            [state |-> after,
             distanceCovered |->
                 IF speedInfo.becalmed
                 THEN (IF rows THEN Min(rowingInfo.rowingSpeed, remaining) ELSE 0)
                 ELSE Min(speedInfo.speed, remaining),
             shipSank |-> (~speedInfo.becalmed /\ hazard.hazardType # "null"
                           /\ ~pilotCheck.success /\ ShipSank(sailed))
                          \/ (dice.encounters # <<>> /\ ShipSank(after))])))

\* -------------------------------------------------------------- crew hire
RECURSIVE TotalCrew(_, _)
TotalCrew(roles, crew) ==
    IF roles = {} THEN 0
    ELSE LET r == CHOOSE x \in roles : TRUE
         IN  crew[r] + TotalCrew(roles \ {r}, crew)

\* CrewHiringSystem.calculateShortfall: the roles below their required count
calculateShortfall(currentCrew, requiredCrew) ==
    {r \in DOMAIN requiredCrew : requiredCrew[r] - CrewCount(currentCrew, r) > 0}

\* CrewHiringSystem.shouldAutoHire: shortfall above 20 percent
shouldAutoHireCrew(currentCrew, requiredCrew) ==
    LET currentTotal == TotalCrew(DOMAIN currentCrew, currentCrew)
        requiredTotal == TotalCrew(DOMAIN requiredCrew, requiredCrew)
    IN  (requiredTotal - currentTotal) * 100 > 20 * requiredTotal

\* VoyageSimulator.offerCrewHiring: every short role is brought back to its
\* required count; hire is the dialog answer used without automation
offerCrewHiring(s, hire) ==
    LET shortfall == calculateShortfall(s.currentCrew, s.ship.crew)
        hires == IF s.automateTrading
                 THEN shouldAutoHireCrew(s.currentCrew, s.ship.crew) ELSE hire
    IN  IF shortfall = {} \/ ~hires THEN s
        ELSE addActivity([s EXCEPT !.currentCrew =
                            [r \in DOMAIN @ |-> IF r \in shortfall THEN s.ship.crew[r]
                                                ELSE @[r]]],
                         "Hired replacement crew")

\* ------------------------------------------------------------------ ports
\* VoyageSimulator.processOriginPort
processOriginPort(s, legs, dice) ==
    LET originID == s.route.ports[1]
    IN  Then([s EXCEPT !.portsVisited = Append(@, originID)],
          LAMBDA arrived :
        Then(PayPortFees(arrived, originID, 3, dice.entrance, dice.berth),
          LAMBDA feed :
        Then(openPortActivity(feed, originID, "origin", arrived.treasury - feed.treasury),
          LAMBDA paid :
        Then(offerShipRepairs(paid, originID),
          LAMBDA repaired :
        Then(offerCrewHiring(repaired, dice.hireCrew),
          LAMBDA crewed :
            IF s.tradeMode = "consignment" THEN loadConsignmentCargo(crewed)
            ELSE attemptStrategicPurchase(crewed, originID, -1, legs, dice.buy))))))

\* the flush of the accumulated wages and provisions into one ledger entry
FlushLegCost(s, description) ==
    IF s.legAccumulatedCost > 0
    THEN [recordLedgerEntry(s, description, 0, s.legAccumulatedCost, FALSE)
          EXCEPT !.legAccumulatedCost = 0]
    ELSE s

\* the days-in-port loop of processPort
RECURSIVE PortDays(_, _)
PortDays(s, days) ==
    IF days = 0 THEN s
    ELSE Then(ChargeDailyCost(s), LAMBDA charged : PortDays(charged, days - 1))

\* the miles the cargo has travelled: legs purchaseLegIndex..legIndex
cargoDistanceTraveled(s, legIndex, allLegs) ==
    IF s.currentCargo.loads > 0 /\ s.currentCargo.purchaseLegIndex # Undefined
    THEN SumDistance(SubSeq(allLegs, s.currentCargo.purchaseLegIndex + 1, legIndex + 1))
    ELSE 0

\* VoyageSimulator.processPort
processPort(s, portId, legIndex, allLegs, dice) ==
    LET isFinalPort == legIndex = Len(allLegs) - 1
        daysInPort == IF isFinalPort THEN 3 ELSE dice.days
        remainingLegs == LegsFrom(allLegs, legIndex + 1)
        distanceToNext == IF remainingLegs = <<>> THEN 0 ELSE remainingLegs[1].distance
    IN  Then([s EXCEPT !.portsVisited = Append(@, portId)],
          LAMBDA visited :
        Then(FlushLegCost(visited, "Voyage expenses (Wages & Provisions)"),
          LAMBDA arrived :
        Then(PayPortFees(arrived, portId, daysInPort, dice.entrance, dice.berth),
          LAMBDA feed :
        Then(openPortActivity(feed, portId, IF isFinalPort THEN "destination" ELSE "intermediate",
                              arrived.treasury - feed.treasury),
          LAMBDA paid :
        Then(offerShipRepairs(paid, portId),
          LAMBDA repaired :
        Then(offerCrewHiring(repaired, dice.hireCrew),
          LAMBDA crewed :
        Then(PortDays(crewed, daysInPort),
          LAMBDA stayed :
        Then(BookPassengers(stayed, portId, SumDistance(remainingLegs), dice.pass),
          LAMBDA booked :
        Then(cargoDistanceTraveled(booked, legIndex, allLegs),
          LAMBDA traveled :
        Then(IF booked.currentCargo.loads > 0 /\ booked.tradeMode = "speculation"
                /\ evaluateSale(traveled, distanceToNext, isFinalPort)
             THEN attemptCargoSale(booked, portId, traveled, dice.sell)
             ELSE booked,
          LAMBDA sold :
            IF sold.tradeMode = "speculation" /\ sold.currentCargo.loads = 0
               /\ ~isFinalPort
            THEN attemptStrategicPurchase(sold, portId, legIndex, allLegs, dice.buy)
            ELSE sold))))))))))

\* VoyageSimulator.finalizeVoyage: the last flush of the ledger
finalizeVoyage(s) == FlushLegCost(s, "Final Voyage expenses")

\* ------------------------------------------------------------ manual mode
\* NavigationSystem.calculateHullDamagePenalty: speedPenaltyPercent
calculateHullDamagePenalty(currentHullDamage, maxHull) ==
    Floor(currentHullDamage * 10, maxHull) * 10

\* a variant of simulateDay that stops, and lets the state be saved, right
\* after the day's cost has been charged
simulateDayCutShort(s, dice) == ChargeDailyCost(s)

\* VoyageSimulator.simulateDay (manual mode).  The route carries no hazard
\* flag, so no hazard check runs; _advancePosition only adds the miles.
simulateDay(s, dice) ==
    LET charged == ChargeDailyCost(s)
        hp == s.ship.hullPoints
        hullPenaltyPct == calculateHullDamagePenalty(Max(0, hp.max - hp.value), hp.max)
        penalizedBase ==
            Max(0, Floor(s.ship.movement * 8
                         * (100 - hullPenaltyPct - s.maintenance.speedPenalty), 100))
        milesToday == calculateSailingSpeed(penalizedBase, dice.weather, dice.wet).speed
    IN  [charged EXCEPT !.position.milesOnSegment = @ + milesToday,
                        !.maintenance.daysSinceService = @ + 1,
                        !.day = PlusOne(@),
                        !.log = Append(@, [day |-> PlusOne(s.day), miles |-> milesToday])]

\* ------------------------------------------------------------ persistence
\* what a number is after the world setting has been written and read back
\* (settings are kept as JSON text, and JSON has no NaN: it is written as
\* null; an absent property stays absent)
JsonNumber(x) == IF x.kind = "NaN" THEN NullNum ELSE x

\* a voyage state after JSON.stringify and JSON.parse
JsonRoundTrip(s) ==
    [s EXCEPT !.day = JsonNumber(@),
              !.log = [k \in DOMAIN @ |-> [@[k] EXCEPT !.day = JsonNumber(@)]]]

\* VoyageSimulator._setStore: game.settings.set of the whole store
setStore(st) == [id \in DOMAIN st |-> JsonRoundTrip(st[id])]

\* VoyageSimulator.saveState
saveState(st, voyageId, s) == setStore((voyageId :> s) @@ st)

\* VoyageSimulator.loadState (NoVoyage stands for null)
loadState(st, voyageId) == IF voyageId \in DOMAIN st THEN st[voyageId] ELSE [id |-> "none"]

\* ------------------------------------------------------------------ inputs
Skilled ==
    [name |-> "Skilled", level |-> 5, chaScore |-> 15, wisScore |-> 16,
     skills |-> {"bargaining", "appraisal", "trade", "smuggling", "piloting"}]

Unskilled ==
    [name |-> "Unskilled", level |-> 0, chaScore |-> 10, wisScore |-> 10, skills |-> {}]

BaseConfig ==
    [voyageId |-> "", shipId |-> "small_merchant_1", routeId |-> "hardby_to_gradsul",
     startingGold |-> 5000, tradeMode |-> "speculation", commissionRate |-> 20,
     mode |-> "auto", automateTrading |-> TRUE, autoRepair |-> TRUE,
     enableRowing |-> TRUE, crewQuality |-> "Average", captain |-> Skilled,
     lieutenant |-> [level |-> 3, skills |-> {"appraisal"}]]

\* the voyage configurations the model starts from
Configs ==
    {BaseConfig,
     [BaseConfig EXCEPT !.routeId = "relmor_bay_circuit"],
     [BaseConfig EXCEPT !.startingGold = 0],
     [BaseConfig EXCEPT !.routeId = "greyhawk_dyvers", !.startingGold = 100,
                        !.captain = Unskilled, !.automateTrading = FALSE],
     [BaseConfig EXCEPT !.routeId = "greyhawk_dyvers", !.tradeMode = "consignment"],
     [BaseConfig EXCEPT !.routeId = "relmor_bay_circuit", !.tradeMode = "consignment"],
     [BaseConfig EXCEPT !.shipId = "medium_cog_1", !.routeId = "gearnat_relmor_trade",
                        !.captain = Unskilled, !.lieutenant.level = 0],
     [BaseConfig EXCEPT !.routeId = "greyhawk_dyvers", !.crewQuality = "Crack",
                        !.captain = [Unskilled EXCEPT !.wisScore = 16]],
     [BaseConfig EXCEPT !.mode = "manual"],
     [BaseConfig EXCEPT !.startingGold = -1],
     [BaseConfig EXCEPT !.shipId = "ghost_ship"],
     [BaseConfig EXCEPT !.routeId = "nowhere"],
     [BaseConfig EXCEPT !.captain.name = ""],
     [BaseConfig EXCEPT !.captain.chaScore = 25],
     [BaseConfig EXCEPT !.tradeMode = "consignment", !.commissionRate = 50]}

\* representative rolls.  Encounters: a table entry, the number appearing
\* and the damage and crew dice.
Shark == [name |-> "Shark", number |-> 3, dmgMax |-> FALSE, crewRoll |-> 1]

Whirlpool == [name |-> "Whirlpool", number |-> 1, dmgMax |-> FALSE, crewRoll |-> 1]

LoneWhale == [name |-> "Whale, carnivorous", number |-> 1, dmgMax |-> FALSE, crewRoll |-> 4]

WhalePod == [name |-> "Whale, carnivorous", number |-> 8, dmgMax |-> TRUE, crewRoll |-> 4]

Weather(wind, precip, sky) == [wind |-> wind, precip |-> precip, sky |-> sky]

DayRoll(weather, pilot, encounters) ==
    [weather |-> weather, wet |-> 10, pilot |-> pilot, d3 |-> 3, d4 |-> 4,
     d5 |-> 5, d6 |-> 6, encounters |-> encounters]

\* the rolls of one day at sea
DayDice ==
    {DayRoll(Weather(25, "drizzle", "clear"), 10, <<>>),
     DayRoll(Weather(3, "none", "clear"), 10, <<Whirlpool>>),
     DayRoll(Weather(55, "none", "fog"), 20, <<LoneWhale>>),
     DayRoll(Weather(55, "gale", "clear"), 1, <<WhalePod, WhalePod>>),
     DayRoll(Weather(25, "none", "mist"), 20, <<Shark, WhalePod>>)}

BuyRoll(t3d6, q3d8, app, barg) == [t3d6 |-> t3d6, q3d8 |-> q3d8, app |-> app, barg |-> barg]

CheapLot == BuyRoll(4, 24, 10, 3)

DearLot == BuyRoll(16, 10, 20, 20)

FairLot == BuyRoll(10, 15, 10, 13)

GoodSale ==
    [agentsEnabled |-> FALSE, hireAgent |-> FALSE, agentSkill |-> 12, agentFee |-> 7,
     tax2d10 |-> 5, smuggle |-> FALSE, smug |-> 1, cust |-> 5, dm3d6 |-> 12,
     trade |-> 5, dist |-> 6, precious |-> 50, barg |-> 3, app |-> 5, sa3d6 |-> 14,
     spoil |-> <<FALSE, FALSE, FALSE>>]

BadSale ==
    [agentsEnabled |-> TRUE, hireAgent |-> TRUE, agentSkill |-> 12, agentFee |-> 25,
     tax2d10 |-> 20, smuggle |-> TRUE, smug |-> 20, cust |-> 19, dm3d6 |-> 4,
     trade |-> 19, dist |-> 1, precious |-> 50, barg |-> 19, app |-> 19, sa3d6 |-> 4,
     spoil |-> <<TRUE, TRUE, TRUE>>]

SmuggledSale == [GoodSale EXCEPT !.tax2d10 = 20, !.dist = 4]

NoPassengers == [p2d4 |-> 2, p1d4 |-> 4, charter |-> 50, c2d20 |-> 10, accept |-> FALSE]

FullDeck == [p2d4 |-> 8, p1d4 |-> 1, charter |-> 3, c2d20 |-> 40, accept |-> TRUE]

PortRoll(days, entrance, berth, hireCrew, pass, sell, buy) ==
    [days |-> days, entrance |-> entrance, berth |-> berth, hireCrew |-> hireCrew,
     pass |-> pass, sell |-> sell, buy |-> buy]

\* the rolls of one port call (days is ignored at the origin)
PortDice ==
    {PortRoll(2, 11, 50, TRUE, NoPassengers, GoodSale, CheapLot),
     PortRoll(4, 20, 90, FALSE, FullDeck, BadSale, DearLot),
     PortRoll(3, 11, 50, TRUE, FullDeck, SmuggledSale, FairLot)}

\* the d10 rolls for the captain's level
CaptainRolls == {1, 10}

\* ---------------------------------------------------------------- actions
\* the legs runSimulation sails
Legs == buildRouteLegs(state.route)

\* a voyage state exists (startVoyage accepted the configuration)
Started == pc \notin {"init", "rejected"}

\* the concurrent callers of saveState, each with the voyage it saves
Savers == {"voyage-a", "voyage-b"}

\* a caller that is not inside saveState: the number of its calls so far
\* and the state its last completed call saved (<<>> before the first)
Idle(calls, saved) ==
    [phase |-> "idle", calls |-> calls, saved |-> saved, s |-> <<>>, local |-> <<>>]

\* the voyage states the callers save: a manual voyage after d days
DayState(voyageId, d) ==
    [id |-> voyageId, day |-> Num(d), log |-> [k \in 1..d |-> [day |-> Num(k), miles |-> 120]]]

\* no sale is being looked at
NoSale == [distance |-> 0, roll |-> 0, loads |-> 0, spoil |-> <<>>, result |-> <<>>]

\* before startVoyage there is no voyage state
NoVoyage == [id |-> "none"]

Init ==
    /\ cfg \in Configs
    /\ state = NoVoyage
    /\ pc = "init"
    /\ i = 0
    /\ remainingDistance = 0
    /\ sailingDays = 0
    /\ activeVoyages = {}
    /\ store = <<>>
    /\ ships = [id \in KnownShips |-> ("oid" :> id) @@ ShipTemplate(id)]
    /\ saving = [p \in Savers |-> Idle(0, <<>>)]
    /\ calendarDay = 0
    /\ sale = NoSale

\* startVoyage up to the point where it returns (manual) or enters
\* runSimulation (auto)
StartVoyage ==
    /\ pc = "init"
    /\ IF initializeThrows(cfg) \/ ~validatevoyageConfig(cfg)
       THEN /\ pc' = "rejected"
            /\ UNCHANGED <<state, activeVoyages, store>>
       ELSE \E d10 \in CaptainRolls :
              \E voyageState \in {("id" :> VoyageId(cfg)) @@ initializeVoyageState(ships, cfg, d10)} :
              \E opened \in {recordLedgerEntry(voyageState, "Beginning of trade simulation",
                                               voyageState.treasury, 0, TRUE)} :
                /\ state' = opened
                /\ activeVoyages' = activeVoyages \cup {opened.id}
                /\ store' = saveState(store, opened.id, opened)
                /\ pc' = IF opened.mode = "manual" THEN "manual" ELSE "origin"
    /\ UNCHANGED <<cfg, i, remainingDistance, sailingDays, ships, saving, sale, calendarDay>>

\* runSimulation: processOriginPort, then the entry into the first leg
ProcessOriginPort ==
    /\ pc = "origin"
    /\ \E dice \in PortDice :
         \E legs \in {Legs} : state' = processOriginPort(state, legs, dice)
    /\ ships' = writeThrough(ships, state'.ship)
    /\ UNCHANGED <<activeVoyages, store, saving, sale, calendarDay>>
    /\ IF Len(Legs) > 0
       THEN /\ pc' = "sailLeg"
            /\ remainingDistance' = Legs[1].distance
       ELSE /\ pc' = "finalize"
            /\ remainingDistance' = remainingDistance
    /\ i' = 0
    /\ sailingDays' = 0
    /\ UNCHANGED cfg

\* one pass of sailLeg's loop: simulateSailingDay and the loop bookkeeping;
\* when the leg ends, runSimulation's choice of what follows it
SailLegDay ==
    /\ pc = "sailLeg"
    /\ state.totalDays < MaxDays
    /\ \E dice \in DayDice :
         \E dayResult \in {simulateSailingDay(state, remainingDistance, dice)} :
         LET left == remainingDistance - dayResult.distanceCovered
             lastLeg == ~(i < Len(Legs) - 1)
         IN  IF dayResult.shipSank
             THEN /\ state' = dayResult.state
                  /\ pc' = "failure"
                  /\ UNCHANGED <<i, remainingDistance, sailingDays, calendarDay>>
             ELSE /\ state' = [dayResult.state EXCEPT !.totalDays = @ + 1]
                  /\ calendarDay' = calendarDay + 1
                  /\ IF left > 0
                     THEN /\ pc' = "sailLeg"
                          /\ remainingDistance' = left
                          /\ sailingDays' = sailingDays + 1
                          /\ i' = i
                     ELSE IF ~lastLeg \/ isCircuitRoute(state.route)
                     THEN /\ pc' = "processPort"
                          /\ remainingDistance' = left
                          /\ sailingDays' = sailingDays + 1
                          /\ i' = i
                     ELSE IF dayResult.state.ship.hullPoints.value <= 0
                     THEN /\ pc' = "failure"
                          /\ remainingDistance' = left
                          /\ sailingDays' = sailingDays + 1
                          /\ i' = i
                     ELSE /\ pc' = "finalize"
                          /\ remainingDistance' = left
                          /\ sailingDays' = sailingDays + 1
                          /\ i' = i + 1
    /\ ships' = writeThrough(ships, state'.ship)
    /\ UNCHANGED <<cfg, activeVoyages, store, saving, sale>>

\* runSimulation: processPort after a leg, the hull check, the next leg
ProcessPort ==
    /\ pc = "processPort"
    /\ \E dice \in PortDice :
         \E legs \in {Legs} :
            /\ state' = processPort(state, legs[i + 1].toID, i, legs, dice)
            /\ calendarDay' = calendarDay + (IF i = Len(legs) - 1 THEN 3 ELSE dice.days)
    /\ IF state'.ship.hullPoints.value <= 0
       THEN /\ pc' = "failure"
            /\ UNCHANGED <<i, remainingDistance, sailingDays>>
       ELSE IF i + 1 < Len(Legs)
       THEN /\ pc' = "sailLeg"
            /\ i' = i + 1
            /\ remainingDistance' = Legs[i + 2].distance
            /\ sailingDays' = 0
       ELSE /\ pc' = "finalize"
            /\ i' = i + 1
            /\ UNCHANGED <<remainingDistance, sailingDays>>
    /\ ships' = writeThrough(ships, state'.ship)
    /\ UNCHANGED <<cfg, activeVoyages, store, saving, sale>>

\* handleVoyageFailure: the chat message; runSimulation returns
HandleVoyageFailure ==
    /\ pc = "failure"
    /\ pc' = "Failed"
    /\ UNCHANGED <<state, cfg, i, remainingDistance, sailingDays, activeVoyages, store, ships,
                   saving, sale, calendarDay>>

\* finalizeVoyage, which ends by deleting the voyage from activeVoyages;
\* runSimulation returns
FinalizeVoyage ==
    /\ pc = "finalize"
    /\ state' = finalizeVoyage(state)
    /\ activeVoyages' = activeVoyages \ {state.id}
    /\ pc' = "Final"
    /\ UNCHANGED <<cfg, i, remainingDistance, sailingDays, store, ships, saving, sale, calendarDay>>

\* simulateDay on a manual voyage: the state is loaded from the store,
\* advanced by a day and saved
SimulateDay ==
    /\ pc = "manual"
    /\ \E loaded \in {loadState(store, state.id)} :
         /\ loaded # NoVoyage
         /\ ~loaded.flags.finished
         /\ loaded.maintenance.daysSinceService < MaxDays
         /\ \E dice \in DayDice :
              \E simulated \in {simulateDay(loaded, dice)} :
                /\ state' = simulated
                /\ store' = saveState(store, simulated.id, simulated)
    /\ UNCHANGED <<pc, cfg, i, remainingDistance, sailingDays, activeVoyages, ships, saving, sale, calendarDay>>

Next ==
    \/ StartVoyage
    \/ ProcessOriginPort
    \/ SailLegDay
    \/ ProcessPort
    \/ HandleVoyageFailure
    \/ FinalizeVoyage
    \/ SimulateDay

Spec == Init /\ [][Next]_vars

\* ----------------------------------- simulateDay after the end of the run
\* simulateDay(voyageId) called for a voyage whose automatic run has reached
\* finalizeVoyage or handleVoyageFailure: it works on the state it loads
\* from the store, the state object of the run is not involved
SimulateDayAfterEnd ==
    /\ pc \in {"Final", "Failed"}
    /\ \E loaded \in {loadState(store, state.id)} :
         /\ loaded # NoVoyage
         /\ ~loaded.flags.finished
         /\ Len(loaded.log) < MaxLateDays
         /\ \E dice \in DayDice :
              \E simulated \in {simulateDay(loaded, dice)} :
                store' = saveState(store, simulated.id, simulated)
    /\ UNCHANGED <<state, pc, cfg, i, remainingDistance, sailingDays, activeVoyages, ships,
                   saving, sale, calendarDay>>

\* one automatic voyage that visits ports and can sink, and one manual one
LateInit ==
    /\ Init
    /\ \/ cfg.shipId = "medium_cog_1"
       \/ cfg.mode = "manual"

LateNext ==
    \/ Next
    \/ SimulateDayAfterEnd

LateSpec == LateInit /\ [][LateNext]_vars

\* ------------------------------------------- days at sea with a thin crew
\* a ship on the first leg of its voyage, late in the voyage's days, whose
\* sailors have been reduced by the encounters of earlier days
CrewInit ==
    /\ cfg = [BaseConfig EXCEPT !.shipId = "medium_cog_1", !.routeId = "gearnat_relmor_trade"]
    /\ pc = "sailLeg"
    /\ i = 0
    /\ sailingDays = 0
    /\ activeVoyages = {"uuid"}
    /\ store = <<>>
    /\ ships = [id \in KnownShips |-> ("oid" :> id) @@ ShipTemplate(id)]
    /\ saving = [p \in Savers |-> Idle(0, <<>>)]
    /\ calendarDay = 0
    /\ sale = NoSale
    /\ \E sailors \in 0..9 : \E marines \in {0, 2, 5} :
         state = [("id" :> "uuid") @@ initializeVoyageState(ships, cfg, 1) EXCEPT
                      !.currentCrew.sailor = sailors, !.currentCrew.marine = marines,
                      !.totalDays = MaxDays - 2]
    /\ remainingDistance = buildRouteLegs(state.route)[1].distance

CrewSpec == CrewInit /\ [][SailLegDay]_vars

\* ------------------------------------------------ repairs at one port call
\* a ship that arrives in port with the hull and the treasury drawn here,
\* the port fees paid and the port's activity record opened
RepairInit ==
    /\ cfg \in {BaseConfig, [BaseConfig EXCEPT !.automateTrading = FALSE]}
    /\ pc = "repairs"
    /\ i = 0
    /\ remainingDistance = 0
    /\ sailingDays = 0
    /\ activeVoyages = {}
    /\ store = <<>>
    /\ ships = [id \in KnownShips |-> ("oid" :> id) @@ ShipTemplate(id)]
    /\ saving = [p \in Savers |-> Idle(0, <<>>)]
    /\ calendarDay = 0
    /\ sale = NoSale
    /\ \E hull \in {0, 1, 20, 32, 33, 35, 36} :
         \E treasury \in {-50, 0, 300, 399, 400, 1600, 3600, 5000} :
         \E portId \in {"hardby", "rel_mord"} :
            state = openPortActivity(
                        [initializeVoyageState(ships, cfg, 1) EXCEPT
                             !.ship.hullPoints.value = hull, !.treasury = treasury],
                        portId, "intermediate", 0)

\* offerShipRepairs at the port of the open activity record
OfferShipRepairs ==
    /\ pc = "repairs"
    /\ state' = offerShipRepairs(state,
                     state.portActivities[Len(state.portActivities)].portName)
    /\ pc' = "hiring"
    /\ UNCHANGED <<cfg, i, remainingDistance, sailingDays, activeVoyages, store, ships,
                   saving, sale, calendarDay>>

RepairSpec == RepairInit /\ [][OfferShipRepairs]_vars

\* ------------------------------------------------------- one cargo sale
\* the parameters of one call of handleCargoSale: the port, the trade mode
\* and commission rate, the loads in the hold, the distance they travelled
\* and the rolls of the sale; the captain is the one of the base
\* configuration
SaleInit ==
    /\ cfg = BaseConfig
    /\ state = NoVoyage
    /\ pc = "selling"
    /\ i = 0
    /\ remainingDistance = 0
    /\ sailingDays = 0
    /\ activeVoyages = {}
    /\ store = <<>>
    /\ ships = [id \in KnownShips |-> ("oid" :> id) @@ ShipTemplate(id)]
    /\ saving = [p \in Savers |-> Idle(0, <<>>)]
    /\ calendarDay = 0
    /\ \E portId \in {"hardby", "gradsul"} : \E tradeMode \in {"consignment", "speculation"} :
         \E commissionRate \in {15, 20, 50} : \E loads \in {10, 30} :
         \E distance \in {100, 330, 600} : \E dice \in {GoodSale, BadSale, SmuggledSale} :
            sale = [portId |-> portId, tradeMode |-> tradeMode,
                    commissionRate |-> commissionRate, loads |-> loads,
                    distance |-> distance, dice |-> dice, result |-> <<>>]

\* CargoSelling.handleCargoSale with these parameters
HandleCargoSale ==
    /\ pc = "selling"
    /\ sale' = [sale EXCEPT !.result =
                    <<handleCargoSale(sale.portId, 1000, createProficiencyScores(cfg.captain),
                                      cfg.lieutenant.skills, cfg.automateTrading, "consumer",
                                      sale.loads,
                                      IF sale.tradeMode = "consignment" THEN 0
                                      ELSE 100 * sale.loads,
                                      sale.tradeMode, sale.commissionRate, sale.distance,
                                      getCrewQualityModifier(cfg.crewQuality), 0,
                                      sale.dice)>>]
    /\ pc' = "sold"
    /\ UNCHANGED <<state, cfg, i, remainingDistance, sailingDays, activeVoyages, store,
                   ships, saving, calendarDay>>

SaleSpec == SaleInit /\ [][HandleCargoSale]_vars

\* --------------------------------------------- perishability at one sale
\* the distance from the port of purchase, the 1d6 distance roll, the loads
\* on sale and, for each excess unit, whether its 1d100 came up 25 or less
PerishInit ==
    /\ cfg = BaseConfig
    /\ state = NoVoyage
    /\ pc = "sale"
    /\ i = 0
    /\ remainingDistance = 0
    /\ sailingDays = 0
    /\ activeVoyages = {}
    /\ store = <<>>
    /\ ships = [id \in KnownShips |-> ("oid" :> id) @@ ShipTemplate(id)]
    /\ saving = [p \in Savers |-> Idle(0, <<>>)]
    /\ calendarDay = 0
    /\ \E distance \in {60, 200, 400, 600} : \E roll \in 1..6 : \E loads \in {4, 20} :
         \E spoil \in {<<a, b, c>> : a, b, c \in BOOLEAN} :
            sale = [distance |-> distance, roll |-> roll, loads |-> loads, spoil |-> spoil,
                    result |-> <<>>]

\* the sale up to the loads it sells: the distance roll of
\* calculateSalePrice, then applyPerishability on it
CheckPerishability ==
    /\ pc = "sale"
    /\ sale' = [sale EXCEPT !.result =
                    <<applyPerishability(DistanceRoll(sale.distance, sale.roll),
                                         sale.loads, sale.spoil)>>]
    /\ pc' = "sold"
    /\ UNCHANGED <<state, cfg, i, remainingDistance, sailingDays, activeVoyages, store,
                   ships, saving, calendarDay>>

PerishSpec == PerishInit /\ [][CheckPerishability]_vars

\* ------------------------------------------- concurrent calls of saveState
\* two callers (simulateDay of two manual voyages) save concurrently
SaveInit ==
    /\ cfg = BaseConfig
    /\ state = NoVoyage
    /\ pc = "saving"
    /\ i = 0
    /\ remainingDistance = 0
    /\ sailingDays = 0
    /\ activeVoyages = Savers
    /\ store = <<>>
    /\ ships = [id \in KnownShips |-> ("oid" :> id) @@ ShipTemplate(id)]
    /\ saving = [p \in Savers |-> Idle(0, <<>>)]
    /\ calendarDay = 0
    /\ sale = NoSale

\* saveState up to its second await: `const store = await this._getStore()`
\* has returned the store as it is now
SaveStateRead ==
    \E p \in Savers : \E d \in 1..2 :
        /\ pc = "saving"
        /\ saving[p].phase = "idle"
        /\ saving[p].calls < MaxSaves
        /\ saving' = [saving EXCEPT ![p] = [@ EXCEPT !.phase = "read",
                                                      !.s = DayState(p, d),
                                                      !.local = store]]
        /\ UNCHANGED <<state, pc, cfg, i, remainingDistance, sailingDays, activeVoyages,
                       store, ships, sale, calendarDay>>

\* the rest of saveState: store[voyageId] = state on the object that was
\* read, then _setStore of that object
SaveStateWrite ==
    \E p \in Savers :
        /\ pc = "saving"
        /\ saving[p].phase = "read"
        /\ store' = saveState(saving[p].local, p, saving[p].s)
        /\ saving' = [saving EXCEPT ![p] = Idle(@.calls + 1, <<@.s>>)]
        /\ UNCHANGED <<state, pc, cfg, i, remainingDistance, sailingDays, activeVoyages,
                       ships, sale, calendarDay>>

SaveNext ==
    \/ SaveStateRead
    \/ SaveStateWrite

SaveSpec == SaveInit /\ [][SaveNext]_vars

\* ----------------------------------------------------------------- claims
\* C1: every ledger entry after the opening one has
\* balance = previous balance + income - expense, an absent income or
\* expense counting as 0.
C1_LedgerBalanceChain ==
    Started =>
        \A k \in 2..Len(state.ledger) :
            state.ledger[k].balance =
                state.ledger[k - 1].balance + Val(state.ledger[k].income)
                - Val(state.ledger[k].expense)

\* C2 as stated: at every day boundary and port-phase boundary the treasury
\* equals the balance of the last ledger entry.
C2_TreasuryIsLastBalance ==
    Started => state.treasury = state.ledger[Len(state.ledger)].balance

\* C2, amended: at every day boundary and port-phase boundary the treasury
\* plus the wages and provisions accumulated since the last flush
\* (legAccumulatedCost) equals the balance of the last ledger entry.
C2_TreasuryPlusAccumulatedIsLastBalance ==
    Started =>
        state.treasury + state.legAccumulatedCost
            = state.ledger[Len(state.ledger)].balance

\* a day at sea has been charged and not yet flushed: the treasury is
\* below the last ledger balance by exactly the accumulated cost
C2_Witness ==
    /\ pc = "sailLeg"
    /\ state.totalDays > 0
    /\ state.legAccumulatedCost > 0
    /\ state.treasury < state.ledger[Len(state.ledger)].balance

\* C3: in every voyage state 0 <= hull value <= hull max.
C3_HullWithinBounds ==
    Started =>
        /\ 0 <= state.ship.hullPoints.value
        /\ state.ship.hullPoints.value <= state.ship.hullPoints.max

\* C4: whenever the hull is at 0 or below the voyage is failing or Failed,
\* and no sailing day, port processing, finalization or manual day can run;
\* so it never reaches Final.
C4_SunkShipFails ==
    (Started /\ state.ship.hullPoints.value <= 0) =>
        /\ pc \in {"failure", "Failed"}
        /\ ~ENABLED SailLegDay
        /\ ~ENABLED ProcessPort
        /\ ~ENABLED FinalizeVoyage

\* the ship sank at sea and the voyage ended Failed
C4_Witness ==
    /\ pc = "Failed"
    /\ state.ship.hullPoints.value <= 0
    /\ state.totalHullDamage > 0

\* C5: in an auto voyage that does not fail, port processing follows every
\* completed leg, the last one included, and finalization is entered only
\* from the port processing of the last leg.
C5_PortAfterEveryLeg ==
    [][/\ (pc = "sailLeg" /\ pc' \notin {"sailLeg", "failure"}) => pc' = "processPort"
       /\ pc' = "finalize" => pc = "processPort"]_vars

\* C6: when a voyage over a non-circuit route reaches Final, the route's
\* port list is a subsequence of portsVisited (every port, in route order).
C6_AllPortsVisitedInOrder ==
    (pc = "Final" /\ ~isCircuitRoute(state.route)) =>
        \E f \in [1..Len(state.route.ports) -> 1..Len(state.portsVisited)] :
            /\ \A k \in DOMAIN f : state.portsVisited[f[k]] = state.route.ports[k]
            /\ \A j, k \in DOMAIN f : j < k => f[j] < f[k]

\* C7: in every voyage state the cargo has loads >= 0 and its type is null
\* exactly when loads = 0.
C7_CargoWellFormed ==
    Started =>
        /\ state.currentCargo.loads >= 0
        /\ (state.currentCargo.type = "null") <=> (state.currentCargo.loads = 0)

\* C8: when a voyage terminates (Final or Failed),
\* revenueTotal - expenseTotal = treasury - startingCapital.
C8_TotalsMatchTreasury ==
    pc \in {"Final", "Failed"} =>
        state.revenueTotal - state.expenseTotal
            = state.treasury - state.startingCapital

\* a voyage that sold cargo, paid customs tax and its other costs, and
\* reached Final
C8_Witness ==
    /\ pc = "Final"
    /\ state.revenueTotal > 0
    /\ state.expenseTotal > 0
    /\ \E k \in DOMAIN state.ledger : state.ledger[k].description = "Sold"
    /\ \E k \in DOMAIN state.ledger : state.ledger[k].description = "Customs tax"

\* C9: the treasury is never negative in a voyage state.
C9_TreasuryNonNegative ==
    Started => state.treasury >= 0

\* C10: a speculation voyage that reaches Final holds no cargo (no
\* positive number of loads is left in the hold).
C10_FinalHoldsNoCargo ==
    (pc = "Final" /\ state.tradeMode = "speculation") =>
        ~(state.currentCargo.loads > 0)

\* C11: a consignment voyage that reaches Final after calling at a port
\* beyond the origin has delivered the cargo it loaded at the origin (the
\* hold is empty) and has been paid the whole transport fee, the half due on
\* delivery included.
C11_ConsignmentDelivered ==
    (pc = "Final" /\ state.tradeMode = "consignment" /\ Len(state.portsVisited) >= 2) =>
        /\ state.currentCargo.loads = 0
        /\ state.revenueTotal >=
               Max(state.ship.cargoCapacity * 20
                       * Ceil(RouteDistance(state.route.ports), 500), 100)

\* C12: a voyage that has terminated, in Final or in Failed, is no longer
\* in the simulator's registry of active voyages.
C12_TerminatedNotActive ==
    pc \in {"Final", "Failed"} => state.id \notin activeVoyages

\* C13: a manual voyage arrives as an auto voyage does: once the miles
\* sailed on the current route segment reach the length of that leg, the
\* ship has arrived at the leg's destination port and that port has been
\* processed (it is the last port visited, and the miles on the segment
\* start again), or the voyage has finished.
C13_ManualDayArrives ==
    (pc = "manual"
       /\ state.position.milesOnSegment >= Legs[state.position.routeSegment + 1].distance) =>
        \/ state.flags.finished
        \/ /\ state.portsVisited # <<>>
           /\ state.portsVisited[Len(state.portsVisited)]
                  = Legs[state.position.routeSegment + 1].toID

\* C14: every simulateDay step of a manual voyage advances the voyage by
\* exactly one day: totalDays grows by 1 and the daily operating cost is
\* deducted from the treasury once.
C14_ManualDayAdvancesOneDay ==
    [][(pc = "manual" /\ pc' = "manual") =>
          /\ state'.totalDays = state.totalDays + 1
          /\ state'.treasury = state.treasury - state.dailyOperationalCost]_vars

\* C15: no leg of an auto voyage can last for ever, whatever the weather
\* and the dice: every day at sea that leaves the ship afloat and the leg
\* unfinished brings the ship closer to the leg's destination (the
\* remaining distance, which ends the loop of sailLeg at 0, decreases).
C15_EverySeaDayMakesProgress ==
    [][(pc = "sailLeg" /\ pc' = "sailLeg") => remainingDistance' < remainingDistance]_vars

C17_SaveLoadRoundTrip ==
    pc = "manual" => loadState(store, state.id) = state

\* C18: the state is saved only at a day boundary or a port-phase boundary,
\* so the persisted state never reflects a partially simulated day: it
\* holds whole days only (every day whose cost it has charged is also
\* counted and logged in it); for a manual voyage it is the state at the
\* end of the last completed day, and for an auto voyage it is the state
\* startVoyage saved, before the first port phase and the first day.
C18_SavedOnlyAtBoundaries ==
    Started =>
        /\ state.id \in DOMAIN store
        /\ store[state.id].expenseTotal
              = store[state.id].dailyOperationalCost
                  * store[state.id].maintenance.daysSinceService
        /\ store[state.id].treasury
              = store[state.id].startingCapital - store[state.id].expenseTotal
        /\ Len(store[state.id].log) = store[state.id].maintenance.daysSinceService
        /\ pc = "manual" => store[state.id] = JsonRoundTrip(state)
        /\ pc # "manual" =>
              /\ store[state.id].totalDays = 0
              /\ store[state.id].portsVisited = <<>>
              /\ Len(store[state.id].ledger) = 1

\* a manual voyage after several simulated days that made way, each saved
\* at its end
C18_Witness ==
    /\ pc = "manual"
    /\ state.id \in DOMAIN store
    /\ store[state.id].maintenance.daysSinceService >= 3
    /\ store[state.id].position.milesOnSegment > 0
    /\ store[state.id].expenseTotal > 0

\* C19: startVoyage with an unknown ship id, an unknown route id, negative
\* starting gold, a commission rate outside 10..40 in consignment mode or
\* a captain without a name does not start the voyage (it returns null or
\* throws): at no time is a voyage state registered as active or
\* persisted, no ledger entry is written and no simulation step runs.
C19_InvalidConfigNeverStarts ==
    (\/ cfg.shipId \notin KnownShips
     \/ cfg.routeId \notin KnownRoutes
     \/ cfg.startingGold < 0
     \/ (cfg.tradeMode = "consignment"
           /\ (cfg.commissionRate < 10 \/ cfg.commissionRate > 40))
     \/ cfg.captain.name = "") =>
        /\ pc \in {"init", "rejected"}
        /\ state = NoVoyage
        /\ activeVoyages = {}
        /\ DOMAIN store = {}

\* startVoyage has rejected a configuration whose route id names no route
C19_Witness ==
    /\ pc = "rejected"
    /\ cfg.routeId \notin KnownRoutes
    /\ state = NoVoyage
    /\ activeVoyages = {}

\* C20: startVoyage with a captain ability score outside 3..18 is rejected:
\* the voyage never starts (no voyage state, nothing registered as active).
C20_AbilityOutOfRangeRejected ==
    (cfg.captain.chaScore \notin 3..18 \/ cfg.captain.wisScore \notin 3..18) =>
        /\ ~Started
        /\ state = NoVoyage
        /\ activeVoyages = {}

\* C21: a cargo purchase the treasury cannot pay for is refused: a purchase
\* is recorded in the ledger only when at least one load was affordable, so
\* every "Purchased" ledger entry carries a positive expense (loads bought
\* at their price); no purchase of zero or of a negative number of loads is
\* ever booked.
C21_NoPurchaseWithoutFunds ==
    Started =>
        \A k \in DOMAIN state.ledger :
            state.ledger[k].description = "Purchased" => Val(state.ledger[k].expense) > 0

\* C22: the steps of a day at sea run in the order daily cost, weather,
\* propulsion, hazard, encounters, calendar advance.  What a day leaves in
\* the state shows the order: the daily cost is charged on every day, also
\* on the day the ship sinks; among the events the day appends, the
\* weather damage comes before every encounter event; and the day counter
\* advances last, by one, on every day the ship survives and not on the
\* day it sinks at sea.
C22_SailingDayOrder ==
    [][pc = "sailLeg" =>
          /\ state'.expenseTotal = state.expenseTotal + state.dailyOperationalCost
          /\ state'.treasury = state.treasury - state.dailyOperationalCost
          /\ \A j, k \in (Len(state.events) + 1)..Len(state'.events) :
                 (j < k /\ state'.events[j].source = "encounter")
                     => state'.events[k].source # "weather"
          /\ pc' \in {"sailLeg", "processPort", "finalize"}
                 => state'.totalDays = state.totalDays + 1
          /\ (pc' = "failure" /\ ShipSank(state') /\ remainingDistance' = remainingDistance)
                 => state'.totalDays = state.totalDays]_vars

\* a day at sea has been completed on which a failed piloting check left a
\* weather damage event and an encounter followed it
C22_Witness ==
    /\ pc = "sailLeg"
    /\ state.totalDays >= 1
    /\ state.expenseTotal > 0
    /\ \E j \in 1..(Len(state.events) - 1) :
          /\ state.events[j].source = "weather"
          /\ state.events[j + 1].source = "encounter"

\* C23: the steps of a port visit run in the order fees, repairs, hiring,
\* days in port, passengers, trading.  The ledger entries a port call
\* appends and the activity lines it records show the order: the port fee
\* entry comes before the repair entry, that before the passenger revenue,
\* that before the sale, tax and purchase entries; the repair line of the
\* port activity comes before the hiring line and that before the cargo
\* lines; and the days in port have been charged when the call ends.
C23_PortVisitOrder ==
    [][(pc \in {"origin", "processPort"}) =>
         (LET rank(d) ==
                  IF d = "Voyage expenses (Wages & Provisions)" THEN 0
                  ELSE IF d = "Port fees" THEN 1
                  ELSE IF d \in {"Ship repairs", "Repaired hull points"} THEN 2
                  ELSE IF d = "Hired replacement crew" THEN 3
                  ELSE IF d = "Passenger Revenue" THEN 5
                  ELSE 6
              acts == state'.portActivities[Len(state'.portActivities)].activities
          IN  /\ \A j, k \in (Len(state.ledger) + 1)..Len(state'.ledger) :
                     j < k => rank(state'.ledger[j].description)
                                 <= rank(state'.ledger[k].description)
              /\ \E k \in (Len(state.ledger) + 1)..Len(state'.ledger) :
                     state'.ledger[k].description = "Port fees"
              /\ Len(state'.portActivities) = Len(state.portActivities) + 1
              /\ \A j, k \in DOMAIN acts : j < k => rank(acts[j]) <= rank(acts[k])
              /\ pc = "processPort" => state'.legAccumulatedCost > 0)]_vars

\* a port call has paid fees, repaired the ship, booked passengers and
\* traded, in that order in the ledger, and has recorded the repair before
\* another activity
C23_Witness ==
    /\ Started
    /\ \E j, k, l, m \in DOMAIN state.ledger :
          /\ j < k /\ k < l /\ l < m /\ m <= j + 5
          /\ state.ledger[j].description = "Port fees"
          /\ state.ledger[k].description = "Ship repairs"
          /\ state.ledger[l].description = "Passenger Revenue"
          /\ state.ledger[m].description \in {"Sold", "Purchased"}
    /\ \E n \in DOMAIN state.portActivities :
          /\ Len(state.portActivities[n].activities) >= 2
          /\ state.portActivities[n].activities[1] = "Repaired hull points"

\* C24: what a voyage does to its ship instance (hull damage, repairs, crew
\* losses and hires) never changes the template in the registry: at every
\* time each template has its original values, so a voyage started later
\* from the same ship id begins with the original hull and crew.
C24_TemplatesUnchanged ==
    \A id \in KnownShips :
        /\ ships[id] = ("oid" :> id) @@ ShipTemplate(id)
        /\ createInstance(ships, id).hullPoints = ShipTemplate(id).hullPoints
        /\ createInstance(ships, id).crew = ShipTemplate(id).crew

\* a voyage whose ship has lost hull points and crew, while the template
\* of its ship id still has the full hull
C24_Witness ==
    /\ Started
    /\ state.ship.hullPoints.value < state.ship.hullPoints.max
    /\ state.currentCrew # state.ship.crew
    /\ state.totalHullDamage > 0
    /\ ships[cfg.shipId].hullPoints.value = ships[cfg.shipId].hullPoints.max

\* C26: saving the state of one voyage never loses or alters the persisted
\* state of another voyage, however the saves interleave: the state that
\* the last completed save of a voyage wrote stays in the store under that
\* voyage's id.
C26_SavesDoNotInterfere ==
    \A p \in Savers :
        saving[p].saved # <<>> =>
            /\ p \in DOMAIN store
            /\ store[p] = JsonRoundTrip(saving[p].saved[1])

\* C27: once a voyage has reached Final or Failed its finished flag is set,
\* and no later step (a simulateDay call for its id) changes its state or
\* writes to the store.
C27_TerminatedVoyageIsClosed ==
    [][(pc \in {"Final", "Failed"}) =>
          /\ state.flags.finished
          /\ state' = state
          /\ store' = store]_vars

\* C28: when a hazard is signalled and the piloting check fails, the hull
\* damage is the entry of the hazard table for the hazard's severity at the
\* margin roll - needed by which the check was missed (at least 1 on a
\* failed check): every weather damage event carries the amount of one of
\* the rows of its severity, 1d5+3 for a Major hazard missed by 7.
C28_HazardDamageFromTable ==
    state # NoVoyage =>
        \A k \in 1..Len(state.events) :
            state.events[k].source = "weather" =>
                state.events[k].amount \in
                    {calculateHazardDamage(state.events[k].sourceName, <<missedBy>>, 3, 4, 5, 6) :
                        missedBy \in 1..40}

\* C29: on a becalmed day (wind below 5 mph) with rowing enabled, a ship
\* that carries 5 oarsmen and has rowed on no day before covers 8 miles by
\* rowing, its count of consecutive rowing days becomes 1, and no hazard
\* check is made (the day appends no weather event).
C29_BecalmedShipRows ==
    [][(/\ pc = "sailLeg"
        /\ pc' = "sailLeg"
        /\ state.enableRowing
        /\ state.ship.crew.oarsman = 5
        /\ state.consecutiveRowingDays = 0
        /\ remainingDistance > 8
        /\ \E dice \in DayDice :
              /\ dice.weather.wind < 5
              /\ state' = [simulateSailingDay(state, remainingDistance, dice).state
                               EXCEPT !.totalDays = @ + 1])
       => /\ remainingDistance' = remainingDistance - 8
          /\ state'.consecutiveRowingDays = 1
          /\ \A k \in (Len(state.events) + 1)..Len(state'.events) :
                 state'.events[k].source # "weather"]_vars

\* C30: at a sale whose distance roll is Short (1 or 2, threshold 80 miles)
\* after more than 500 miles, three excess steps are evaluated one after the
\* other, each spoiling a quarter (rounded up) of what is left when its roll
\* is 25 or less, and the sale goes on with the loads that remain: of 20
\* loads with the rolls 12, 80, 18 (spoil, keep, spoil) 5 and then 4 loads
\* spoil and 11 remain.
C30_ShortRollSpoilsThreeSteps ==
    (pc = "sold" /\ sale.roll <= 2 /\ sale.distance > 500) =>
        /\ sale.result[1].loadsRemaining =
               sale.loads - rollSpoilage(3, sale.loads, sale.spoil, 0)
        /\ (sale.loads = 20 /\ sale.spoil = <<TRUE, FALSE, TRUE>>) =>
               sale.result[1].loadsRemaining = 11

\* C31: on every sailing day the distance covered reflects the hull-damage
\* penalty: the sailing speed is the one of a ship whose base speed is
\* lowered by 10 * floor(damage_pct / 10) percent, and a ship that has lost
\* 75 percent of its hull or more covers no distance.  (On a becalmed day
\* the ship covers nothing or what its oars give.)
C31_DistanceReflectsHullDamage ==
    [][(pc = "sailLeg" /\ pc' \in {"sailLeg", "processPort", "finalize"}) =>
          LET hp == state.ship.hullPoints
              lost == Max(0, hp.max - hp.value)
              penalizedBase ==
                  Floor(state.ship.movement * 8
                        * (100 - calculateHullDamagePenalty(lost, hp.max)), 100)
              covered == remainingDistance - remainingDistance'
          IN  IF lost * 100 >= 75 * hp.max THEN covered = 0
              ELSE \E dice \in DayDice :
                     LET speedInfo == calculateSailingSpeed(penalizedBase, dice.weather,
                                                            dice.wet)
                     IN  IF speedInfo.becalmed
                         THEN covered \in {0, Min(8, remainingDistance)}
                         ELSE covered = Min(speedInfo.speed, remainingDistance)]_vars

\* C32: a route whose port list closes back to its first port is treated
\* as a circuit: the port its last leg reaches, the starting port, receives
\* port processing before Final, so it is the last port visited.
C32_ClosedRouteProcessesStartPort ==
    (pc = "Final" /\ state.route.ports[1] = state.route.ports[Len(state.route.ports)]) =>
        /\ Len(state.portsVisited) >= 2
        /\ state.portsVisited[Len(state.portsVisited)] = state.route.ports[1]

C34_SailorsLostBeforeMarines ==
    [][pc = "sailLeg" =>
          LET new == SubSeq(state'.events, Len(state.events) + 1, Len(state'.events))
              k == SumSeq([j \in 1..Len(new) |->
                              IF new[j].type = "crew_loss" THEN new[j].amount ELSE 0])
              crew == state.currentCrew
              lostSailors == Min(crew.sailor, k)
              lostMarines == Min(crew.marine, k - lostSailors)
          IN  /\ state'.currentCrew =
                     [crew EXCEPT !.sailor = @ - lostSailors, !.marine = @ - lostMarines]
              /\ \A r \in DOMAIN state'.currentCrew : state'.currentCrew[r] >= 0]_vars

\* encounters have taken every sailor of the ship and then some, but not
\* all, of its marines
C34_Witness ==
    /\ pc = "sailLeg"
    /\ \E k \in 1..Len(state.events) : state.events[k].type = "crew_loss"
    /\ state.currentCrew.sailor = 0
    /\ state.currentCrew.marine \in {1, 3, 4}

\* C35: a captain without the piloting skill still rolls the piloting
\* check, against his own WIS - 4: on a day at sea with a weather hazard the
\* check fails (and leaves a weather damage event) exactly when the roll,
\* 1d20 + hazard modifier + crew quality modifier, is above WIS - 4.
C35_UnskilledPilotUsesOwnWisdom ==
    [][(pc = "sailLeg" /\ "piloting" \notin cfg.captain.skills) =>
          \A dice \in DayDice :
             LET dayResult == simulateSailingDay(state, remainingDistance, dice).state
                 hazard == assessWeatherHazard(dice.weather)
                 roll == dice.pilot + hazard.pilotingModifier + state.crewQualityMod
                 new == SubSeq(state'.events, Len(state.events) + 1, Len(state'.events))
             IN  (state' = dayResult \/ state' = [dayResult EXCEPT !.totalDays = @ + 1])
                 /\ hazard.hazardType # "null"
                 /\ dice.weather.wind >= 5
                 => ((\E k \in 1..Len(new) : new[k].source = "weather")
                        <=> roll > cfg.captain.wisScore - 4)]_vars

\* C36: on a consignment sale the crew's share is the whole commission,
\* floor(sale * commission_rate / 100), and the consignor receives the rest
\* of the sale value (sales in which no load has spoiled: the sale value is
\* the price per load times the loads sold).
C36_CrewTakesWholeCommission ==
    (/\ pc = "sold"
     /\ sale.tradeMode = "consignment"
     /\ \A k \in 1..Len(sale.dice.spoil) : ~sale.dice.spoil[k]) =>
        LET result == sale.result[1]
            saleValue == result.salePricePerLoad * result.loadsSold
            commission == Floor(saleValue * sale.commissionRate, 100)
        IN  /\ result.crewDirectTradeEarnings = commission
            /\ result.totalSaleValueToConsignor = saleValue - commission

\* C37: total_days increases by exactly 1 every time the calendar is
\* advanced by one day, on sailing days and on days spent in port alike:
\* across every step of a voyage total_days grows by the number of days the
\* calendar advances, so at termination it is the number of days elapsed
\* between the start date and the end date.
C37_TotalDaysFollowCalendar ==
    [][(Started /\ Started') =>
          state'.totalDays - state.totalDays = calendarDay' - calendarDay]_vars

\* C38: for a consignment, the upfront payment received at the origin plus
\* the delivery payment received at the sale equals the total transport
\* fee: a consignment voyage that reaches Final after calling at a port
\* beyond the origin has received half of the fee upfront and, in the
\* proceeds of a sale, the other half.
C38_UpfrontPlusDeliveryIsFee ==
    (pc = "Final" /\ state.tradeMode = "consignment" /\ Len(state.portsVisited) >= 2) =>
        LET totalTransportFee ==
                Max(state.ship.cargoCapacity * 20
                        * Ceil(RouteDistance(state.route.ports), 500), 100)
            paid(description) ==
                SumSeq([k \in 1..Len(state.ledger) |->
                           IF state.ledger[k].description = description
                           THEN Val(state.ledger[k].income) ELSE 0])
        IN  /\ paid("Consignment Upfront Payment") * 2 = totalTransportFee
            /\ paid("Consignment Upfront Payment") + paid("Sold") >= totalTransportFee

\* C39: the distance travelled that a cargo sale uses is the sum of the
\* distances of exactly the legs sailed while that cargo was aboard, from
\* the port where it was bought (the port call whose activity record holds
\* the purchase) to the port where it is sold.
C39_SaleDistanceIsLegsAboard ==
    [][(/\ pc = "processPort"
        /\ state.tradeMode = "speculation"
        /\ state.currentCargo.loads > 0
        /\ state'.currentCargo # state.currentCargo) =>
          LET calls == state.portActivities
              bought == CHOOSE n \in 1..Len(calls) :
                          /\ \E a \in 1..Len(calls[n].activities) :
                                calls[n].activities[a] = "Purchased loads"
                          /\ \A m \in (n + 1)..Len(calls) :
                                \A a \in 1..Len(calls[m].activities) :
                                   calls[m].activities[a] # "Purchased loads"
          IN  cargoDistanceTraveled(state, i, Legs)
                 = SumDistance(SubSeq(Legs, bought, i + 1))]_vars

\* C40: the legs built for a route are contiguous and cover it: there is
\* exactly one leg for each consecutive pair of ports of the route's port
\* list, in the order of the list (so the first leg starts at the first
\* port), and every later leg, the return leg of a circuit included, starts
\* at the port where the previous leg ended.
C40_LegsContiguousAndCovering ==
    Started =>
        LET ports == state.route.ports
            pairs == Len(ports) - 1
        IN  /\ Len(Legs) \in {pairs, pairs + 1}
            /\ \A k \in 1..pairs :
                   Legs[k].fromID = ports[k] /\ Legs[k].toID = ports[k + 1]
            /\ \A k \in 2..Len(Legs) : Legs[k].fromID = Legs[k - 1].toID

====
